---- MODULE Spec2Model ----
(***************************************************************************)
(* Adaptive placement engine of UpsWing-FlightPath: the AssignedAssessment *)
(* aggregate (assignment, session, responses), the SQL repository that     *)
(* loads and saves it, and the StartPlacementTest / SubmitAnswer           *)
(* interactors, each inside its own unit of work.                          *)
(*                                                                         *)
(* Time is an integer tick.  Abilities are whole logits, standard errors   *)
(* are hundredths, raw scores are hundredths (100 = 1.0).  Identifiers     *)
(* (uuid4 in the code) are the row's position in its table, which is       *)
(* fresh for every insert.  Rows come back from the store in insertion     *)
(* order.                                                                  *)
(***************************************************************************)
EXTENDS Integers, Sequences, FiniteSets, TLC

\* ---------------------------------------------------------------- bounds
MaxClock == 2
MaxSessions == 2
MaxResponses == 4
\* Requests begun while interleaving is explored.
MaxInterleaved == 4

\* Previous responses handed to the estimator alone.
MaxPairs == 2

\* Characters in an answer handed to score_response alone.
MaxLen == 3

\* Python's None for optional numbers and timestamps.
None == -1

Workers == {1, 2}

\* ------------------------------------------------------------ the catalog
\* An answer (a content's correct_answer, a response's selected_option) is
\* the sequence of its characters; NoAnswer is Python's None, what dict.get
\* returns for a missing key.
NoAnswer == << "<none>" >>

\* assessment_item rows linked to the template (parameters in whole units).
\* Item 6's content JSON carries no correct_answer key.
ItemCatalog ==
  << [id |-> 1, skill_area |-> {"grammar"},            discrimination |-> 1, difficulty |-> 0,
      is_active |-> TRUE,  correct_answer |-> << "B" >>],
     [id |-> 2, skill_area |-> {"vocabulary"},         discrimination |-> 2, difficulty |-> 1,
      is_active |-> TRUE,  correct_answer |-> << "c" >>],
     [id |-> 3, skill_area |-> {"grammar", "reading"}, discrimination |-> 1, difficulty |-> 0,
      is_active |-> TRUE,  correct_answer |-> << "b" >>],
     [id |-> 4, skill_area |-> {"listening"},          discrimination |-> 2, difficulty |-> 0,
      is_active |-> TRUE,  correct_answer |-> << "b" >>],
     [id |-> 5, skill_area |-> {"grammar"},            discrimination |-> 2, difficulty |-> 0,
      is_active |-> FALSE, correct_answer |-> << "b" >>],
     [id |-> 6, skill_area |-> {"grammar"},            discrimination |-> 1, difficulty |-> 1,
      is_active |-> TRUE,  correct_answer |-> NoAnswer] >>

\* assessment_config rows the model starts from: adaptive_params and
\* parameters.time_limit_minutes.  Nothing in the code validates them, so
\* min_questions > max_questions and max_questions = 0 occur.
Configs ==
  [min_questions : 0..2, max_questions : 0..2, stopping_se : {30},
   skill_areas : {{"grammar", "vocabulary"}, {"vocabulary"}, {}},
   time_limit : {1}, starting_ability : {0}]

\* What the template / config readers find.
CatalogStates == {"ok", "no_template", "no_config"}

\* The assessment_template row as seeded (rubric: the revision of the rubric
\* JSON).
SeededTemplate == [id |-> 1, name |-> "placement", rubric |-> 1]

\* The row as a request may read it: as seeded, and after an edit of its name
\* and rubric.
Templates ==
  {SeededTemplate, [id |-> 1, name |-> "placement (revised)", rubric |-> 2]}

\* response_data["selected_option"] as sent by the client: the empty string,
\* " B " and "c".
SelectedOptions == {<< >>, << " ", "B", " " >>, << "c" >>}

\* The characters str.strip() removes from both ends.
Whitespace == {" "}

\* str.lower() on one character.
ToLower(c) ==
  CASE c = "B" -> "b"
    [] c = "C" -> "c"
    [] OTHER   -> c

RECURSIVE LStrip(_)
LStrip(s) ==
  IF s # << >> /\ Head(s) \in Whitespace THEN LStrip(Tail(s)) ELSE s

RECURSIVE RStrip(_)
RStrip(s) ==
  IF s # << >> /\ s[Len(s)] \in Whitespace
  THEN RStrip(SubSeq(s, 1, Len(s) - 1))
  ELSE s

Strip(s) == RStrip(LStrip(s))

Lower(s) == [i \in 1..Len(s) |-> ToLower(s[i])]

NormalizeKeepsCase(s) == Strip(s)

\* str(x).strip().lower()
Normalize(s) == Lower(Strip(s))

\* The estimator's output (theta, SE): the floating-point Newton-Raphson
\* iteration is represented by its result, any value of its clipped range
\* that the termination rule can tell apart.
Estimates ==
  {[ability |-> 0, standard_error |-> 31], [ability |-> 1, standard_error |-> 30]}

\* ------------------------------------------------------------ psychometrics
\* P(1-P) of the logistic at whole logits |z|, in 1/10000.
PQTable == << 2500, 1966, 1050, 452, 177, 66, 25, 9, 3 >>

Abs(x) == IF x < 0 THEN -x ELSE x

Clip(x, lo, hi) == IF x < lo THEN lo ELSE IF x > hi THEN hi ELSE x

\* float64 values that are not finite numbers.  Every finite value of the
\* model lies strictly between NegInf and PosInf.
NaN == 2000000001

PosInf == 2000000000

NegInf == -2000000000

IsFinite(x) == x \notin {NaN, PosInf, NegInf}

\* float64 arithmetic: x + y, x - y, x * y, x / y, np.clip.
XNeg(x) == IF x = NaN THEN NaN ELSE -x

XAdd(x, y) ==
  IF x = NaN \/ y = NaN THEN NaN
  ELSE IF ~IsFinite(x) THEN (IF ~IsFinite(y) /\ y # x THEN NaN ELSE x)
  ELSE IF ~IsFinite(y) THEN y
  ELSE x + y

XSub(x, y) == XAdd(x, XNeg(y))

XMul(x, y) ==
  IF x = NaN \/ y = NaN THEN NaN
  ELSE IF IsFinite(x) /\ IsFinite(y) THEN x * y
  ELSE IF x = 0 \/ y = 0 THEN NaN
  ELSE IF (x > 0) = (y > 0) THEN PosInf ELSE NegInf

\* x / y of finite numbers, y # 0, rounded to the nearest unit.
RoundDiv(x, y) ==
  LET quotient == (2 * Abs(x) + Abs(y)) \div (2 * Abs(y))
  IN  IF (x < 0) = (y < 0) THEN quotient ELSE -quotient

XDiv(x, y) ==
  IF x = NaN \/ y = NaN THEN NaN
  ELSE IF ~IsFinite(x) /\ ~IsFinite(y) THEN NaN
  ELSE IF ~IsFinite(x) THEN (IF (x > 0) = (y >= 0) THEN PosInf ELSE NegInf)
  ELSE IF ~IsFinite(y) THEN 0
  ELSE IF y = 0 THEN (IF x = 0 THEN NaN ELSE IF x > 0 THEN PosInf ELSE NegInf)
  ELSE RoundDiv(x, y)

XClip(x, lo, hi) == IF x = NaN THEN NaN ELSE Clip(x, lo, hi)

\* Fisher information in 1/10000, at whole logits.  A NaN z takes the else
\* branch of `if z >= 0`, and max(0.0, nan) is 0.0.  prob * (1 - prob) is a
\* positive float64 at every clipped z, also where its fixed-point value is
\* 0: an infinite discrimination ** 2 times it is infinite.
CalculateInformation(ability, item) ==
  LET discrimination == item.discrimination
      difficulty == item.difficulty
      z  == XClip(XMul(discrimination, XSub(ability, difficulty)), -30, 30)
      p_times_q == IF z = NaN THEN NaN
                   ELSE IF Abs(z) + 1 <= Len(PQTable) THEN PQTable[Abs(z) + 1]
                   ELSE 0
      squared == XMul(discrimination, discrimination)
      information == IF p_times_q # NaN /\ squared = PosInf THEN PosInf
                     ELSE XMul(squared, p_times_q)
  IN  IF information = NaN \/ information < 0 THEN 0 ELSE information

\* 1 / (1 + exp(-z)) at the whole logits 0..10, in 1/10000.
PTable == << 5000, 7311, 8808, 9526, 9820, 9933, 9975, 9991, 9997, 9999, 10000 >>

\* The logistic in 1/10000 at z >= 0 hundredths of a logit, interpolated.
Logistic(z) ==
  LET k == z \div 100
      f == z % 100
  IN  IF k >= 10 THEN 10000
      ELSE PTable[k + 1] + ((PTable[k + 2] - PTable[k + 1]) * f) \div 100

\* The two branches on z >= 0; a NaN z takes the second and stays NaN.
Prob(z) ==
  IF z = NaN THEN NaN
  ELSE IF z >= 0 THEN Logistic(z)
  ELSE 10000 - Logistic(-z)

\* The loop over zip(responses, item_params): the two derivative sums, in
\* 1/10000.  theta is in hundredths, a response in hundredths, a and b in
\* whole units.
RECURSIVE Derivatives(_, _, _, _, _, _)
Derivatives(theta, responses, item_params, i, first_deriv, second_deriv) ==
  IF i > Len(responses) \/ i > Len(item_params)
  THEN [first_deriv |-> first_deriv, second_deriv |-> second_deriv]
  ELSE LET a == item_params[i][1]
           b == item_params[i][2]
           z == XClip(XMul(a, XSub(theta, XMul(b, 100))), -3000, 3000)
           p == Prob(z)
           q == XSub(10000, p)
       IN  Derivatives(theta, responses, item_params, i + 1,
             XAdd(first_deriv, XMul(a, XSub(responses[i] * 100, p))),
             XSub(second_deriv, XMul(XMul(a, a), XDiv(XMul(p, q), 10000))))

\* The Newton-Raphson loop, range(50), from the prior mean.  Once theta is
\* NaN every later iteration leaves it NaN and never breaks.
RECURSIVE NewtonRaphson(_, _, _, _)
NewtonRaphson(theta, responses, item_params, iteration) ==
  IF iteration >= 50 \/ theta = NaN THEN theta
  ELSE LET d == Derivatives(theta, responses, item_params, 1, 0, 0)
           prior_first_deriv == XMul(XNeg(theta), 100)
           prior_second_deriv == -10000
           total_first_deriv == XAdd(d.first_deriv, prior_first_deriv)
           total_second_deriv == XAdd(d.second_deriv, prior_second_deriv)
           theta_new == XClip(XSub(theta, XDiv(XMul(total_first_deriv, 100),
                                               total_second_deriv)),
                              -1000, 1000)
       IN  IF total_second_deriv # NaN /\ total_second_deriv >= 0 THEN theta
           ELSE IF theta_new # NaN /\ theta # NaN /\ theta_new = theta
           THEN theta_new
           ELSE NewtonRaphson(theta_new, responses, item_params, iteration + 1)

RECURSIVE ISqrtIn(_, _, _)
ISqrtIn(n, lo, hi) ==
  IF lo >= hi THEN lo
  ELSE LET mid == (lo + hi + 1) \div 2
       IN  IF mid * mid <= n THEN ISqrtIn(n, mid, hi) ELSE ISqrtIn(n, lo, mid - 1)

\* np.sqrt on a finite n >= 0, rounded down.
ISqrt(n) == ISqrtIn(n, 0, 46340)

StandardErrorUnclipped(information) ==
  IF information # NaN /\ information > 0
  THEN IF information = PosInf THEN 0 ELSE RoundDiv(1000000, ISqrt(information))
  ELSE 20000

\* 1 / sqrt(information) clipped to [0.01, 2.0], or 2.0; in 1/10000, from
\* the information in 1/10000.
StandardError(information) ==
  IF information # NaN /\ information > 0
  THEN Clip(IF information = PosInf THEN 0
            ELSE RoundDiv(1000000, ISqrt(information)), 100, 20000)
  ELSE 20000

\* (theta, standard_error): theta in hundredths, standard_error in 1/10000.
MapEstimation(responses, item_params) ==
  LET theta == NewtonRaphson(0, responses, item_params, 0)
      final_second_deriv ==
        XAdd(Derivatives(theta, responses, item_params, 1, 0, 0).second_deriv,
             -10000)
      information == XNeg(final_second_deriv)
  IN  [ability |-> theta, standard_error |-> StandardError(information)]

\* AssessmentResponse.calculate_score, in hundredths.
CalculateScore(response) ==
  IF response.raw_score # None THEN response.raw_score
  ELSE IF response.is_correct = "true" THEN 100 ELSE 0

Min(x, y) == IF x < y THEN x ELSE y

\* zip(responses, items): as many pairs as the shorter list has elements.
\* A pair keeps the id of its response (None for the current one), its
\* score and its item.
Zip(responses, items) ==
  [i \in 1..Min(Len(responses), Len(items)) |->
     [response_id |-> responses[i].id, score |-> CalculateScore(responses[i]),
      item |-> items[i]]]

Estimation(pairs) ==
  MapEstimation([i \in 1..Len(pairs) |-> pairs[i].score],
                [i \in 1..Len(pairs) |->
                   << pairs[i].item.discrimination, pairs[i].item.difficulty >>])

\* [ok, pairs, ability, standard_error]; ok = FALSE is the ValueError.
CalculateAbility(responses, items) ==
  IF Len(responses) # Len(items)
  THEN [ok |-> FALSE, pairs |-> << >>, ability |-> 0, standard_error |-> 0]
  ELSE IF responses = << >> \/ items = << >>
  THEN [ok |-> TRUE, pairs |-> << >>, ability |-> 0, standard_error |-> 20000]
  ELSE LET pairs == Zip(responses, items)
           estimate == Estimation(pairs)
       IN  [ok |-> TRUE, pairs |-> pairs, ability |-> estimate.ability,
            standard_error |-> estimate.standard_error]

\* The pairs estimate_ability_with_item hands to _map_estimation.
EstimationPairs(responses, items, current_item, current_response_score) ==
  Zip(responses, items) \o
    << [response_id |-> None, score |-> current_response_score,
        item |-> current_item] >>

EstimateAbilityWithItem(responses, items, current_item, current_response_score) ==
  LET pairs == EstimationPairs(responses, items, current_item,
                               current_response_score)
      estimate == Estimation(pairs)
  IN  [ok |-> TRUE, pairs |-> pairs, ability |-> estimate.ability,
       standard_error |-> estimate.standard_error]

\* ------------------------------------------------------------ the aggregate
NoSession ==
  [id |-> 0, status |-> "NONE", current_ability |-> 0, standard_error |-> None,
   questions_answered |-> 0, rubric_snapshot |-> None,
   template_snapshot |-> [template_id |-> 0, name |-> ""],
   started_at |-> None, completed_at |-> None,
   expires_at |-> None, responses |-> << >>]

NoAggregate ==
  [exists |-> FALSE, status |-> "NONE", due_at |-> None, session |-> NoSession]

IsPending(r) == r.submitted_at = None

\* bool(response.get("selected_option")): None and "" are falsy.
HasValidResponse(selected) == selected \notin {<< >>, NoAnswer}

IsTimeExpiredAtBoundary(s, now) == now >= s.expires_at

IsTimeExpired(s, now) == now > s.expires_at

CanAcceptAnswerIgnoresExpiry(s, now) ==
  IF s.status # "IN_PROGRESS" THEN FALSE
  ELSE TRUE

CanAcceptAnswerIgnoresStatus(s, now) ==
  IF IsTimeExpired(s, now) THEN FALSE
  ELSE TRUE

CanAcceptAnswer(s, now) ==
  IF s.status # "IN_PROGRESS" THEN FALSE
  ELSE IF IsTimeExpired(s, now) THEN FALSE
  ELSE TRUE

HasReachedMaxQuestionsStrict(s, max_questions) == s.questions_answered > max_questions

HasReachedMaxQuestions(s, max_questions) == s.questions_answered >= max_questions

HasSufficientPrecision(s, min_standard_error) ==
  IF s.standard_error = None THEN FALSE
  ELSE s.standard_error <= min_standard_error

HasReachedMinQuestions(s, min_questions) == s.questions_answered >= min_questions

\* Index of the first pending response of the session, 0 when there is none.
GetPendingResponseOldest(s) == IF s.responses = << >> THEN 0 ELSE 1

GetPendingResponse(s) ==
  LET P == {i \in 1..Len(s.responses) : IsPending(s.responses[i])}
  IN  IF P = {} THEN 0 ELSE CHOOSE i \in P : \A j \in P : i <= j

GetSubmittedResponsesAll(s) == s.responses

GetSubmittedResponses(s) == SelectSeq(s.responses, LAMBDA r : ~IsPending(r))

GetAnsweredItemIdsPendingOnly(s) ==
  {s.responses[i].item_id : i \in {j \in 1..Len(s.responses) : IsPending(s.responses[j])}}

GetAnsweredItemIds(s) == {s.responses[i].item_id : i \in 1..Len(s.responses)}

CanStartIgnoresDue(agg, now) ==
  IF agg.status # "PENDING" THEN FALSE
  ELSE TRUE

CanStartIgnoresStatus(agg, now) ==
  IF agg.due_at # None /\ now > agg.due_at THEN FALSE
  ELSE TRUE

CanStart(agg, now) ==
  IF agg.status # "PENDING" THEN FALSE
  ELSE IF agg.due_at # None /\ now > agg.due_at THEN FALSE
  ELSE TRUE

HasActiveSessionPending(agg) ==
  agg.session # NoSession /\ agg.session.status = "PENDING"

HasActiveSession(agg) ==
  agg.session # NoSession /\ agg.session.status = "IN_PROGRESS"

\* Each mutator returns [ok, agg]: ok = FALSE is the ValueError it raises.
StartSessionOp(agg, session_id, now, expires_at, starting_ability, rubric_snapshot, template_snapshot) ==
  IF ~CanStart(agg, now) THEN [ok |-> FALSE, agg |-> agg]
  ELSE IF agg.session # NoSession /\ agg.session.status = "IN_PROGRESS"
  THEN [ok |-> FALSE, agg |-> agg]
  ELSE [ok |-> TRUE,
        agg |-> [agg EXCEPT
          !.session = [id |-> session_id, status |-> "IN_PROGRESS",
                       current_ability |-> starting_ability, standard_error |-> None,
                       questions_answered |-> 0,
                       rubric_snapshot |-> rubric_snapshot,
                       template_snapshot |-> template_snapshot,
                       started_at |-> now,
                       completed_at |-> None, expires_at |-> expires_at,
                       responses |-> << >>],
          !.status = "IN_PROGRESS"]]

PresentQuestion(agg, response_id, item_id, now) ==
  IF agg.session = NoSession \/ agg.session.status # "IN_PROGRESS"
  THEN [ok |-> FALSE, agg |-> agg]
  ELSE [ok |-> TRUE,
        agg |-> [agg EXCEPT !.session.responses = Append(@,
          [id |-> response_id, session_id |-> agg.session.id, item_id |-> item_id,
           response_data |-> NoAnswer, is_correct |-> "null", raw_score |-> None,
           presented_at |-> now, submitted_at |-> None])]]

SubmitResponseLeavesPending(agg, selected, is_correct, score, now) ==
  IF agg.session = NoSession THEN [ok |-> FALSE, agg |-> agg]
  ELSE IF ~CanAcceptAnswer(agg.session, now) THEN [ok |-> FALSE, agg |-> agg]
  ELSE LET k == GetPendingResponse(agg.session) IN
    IF k = 0 THEN [ok |-> FALSE, agg |-> agg]
    ELSE IF ~HasValidResponse(selected) THEN [ok |-> FALSE, agg |-> agg]
    ELSE [ok |-> TRUE,
          agg |-> [agg EXCEPT
            !.session.responses[k] = [@ EXCEPT
               !.response_data = selected,
               !.is_correct = IF is_correct THEN "true" ELSE "false",
               !.raw_score = score],
            !.session.questions_answered = @ + 1]]

SubmitResponse(agg, selected, is_correct, score, now) ==
  IF agg.session = NoSession THEN [ok |-> FALSE, agg |-> agg]
  ELSE IF ~CanAcceptAnswer(agg.session, now) THEN [ok |-> FALSE, agg |-> agg]
  ELSE LET k == GetPendingResponse(agg.session) IN
    IF k = 0 THEN [ok |-> FALSE, agg |-> agg]
    ELSE IF ~HasValidResponse(selected) THEN [ok |-> FALSE, agg |-> agg]
    ELSE [ok |-> TRUE,
          agg |-> [agg EXCEPT
            !.session.responses[k] = [@ EXCEPT
               !.response_data = selected,
               !.is_correct = IF is_correct THEN "true" ELSE "false",
               !.raw_score = score,
               !.submitted_at = now],
            !.session.questions_answered = @ + 1]]

UpdateAbilityEstimate(agg, new_ability, new_standard_error) ==
  IF agg.session = NoSession THEN [ok |-> FALSE, agg |-> agg]
  ELSE [ok |-> TRUE,
        agg |-> [agg EXCEPT
          !.session.current_ability = new_ability,
          !.session.standard_error =
             IF new_standard_error # 0 THEN new_standard_error ELSE None]]

CompleteAssessmentClosesWindow(agg, now) ==
  IF agg.session = NoSession THEN [ok |-> FALSE, agg |-> agg]
  ELSE [ok |-> TRUE,
        agg |-> [agg EXCEPT !.session.status = "COMPLETED",
                            !.session.completed_at = now,
                            !.session.expires_at = now,
                            !.status = "COMPLETED"]]

CompleteAssessmentAsExpired(agg, now) ==
  IF agg.session = NoSession THEN [ok |-> FALSE, agg |-> agg]
  ELSE [ok |-> TRUE,
        agg |-> [agg EXCEPT !.session.status = "EXPIRED",
                            !.session.completed_at = now,
                            !.status = "EXPIRED"]]

CompleteAssessmentSessionOnly(agg, now) ==
  IF agg.session = NoSession THEN [ok |-> FALSE, agg |-> agg]
  ELSE [ok |-> TRUE,
        agg |-> [agg EXCEPT !.session.status = "COMPLETED",
                            !.session.completed_at = now]]

CompleteAssessment(agg, now) ==
  IF agg.session = NoSession THEN [ok |-> FALSE, agg |-> agg]
  ELSE [ok |-> TRUE,
        agg |-> [agg EXCEPT !.session.status = "COMPLETED",
                            !.session.completed_at = now,
                            !.status = "COMPLETED"]]

CancelSessionOp(agg) ==
  IF agg.session = NoSession THEN [ok |-> FALSE, agg |-> agg]
  ELSE [ok |-> TRUE, agg |-> [agg EXCEPT !.session.status = "CANCELLED"]]

ExpireSessionOp(agg) ==
  IF agg.session = NoSession THEN [ok |-> FALSE, agg |-> agg]
  ELSE [ok |-> TRUE, agg |-> [agg EXCEPT !.session.status = "EXPIRED",
                                         !.status = "EXPIRED"]]

\* ------------------------------------------------------------ CAT service
Overlaps(skill_areas, item) == skill_areas \cap item.skill_area # {}

BestItemFirst(items, i, ability, best_item, max_information) == items[1].id

RECURSIVE BestItemLastTie(_, _, _, _, _)
BestItemLastTie(items, i, ability, best_item, max_information) ==
  IF i > Len(items) THEN best_item
  ELSE LET info == CalculateInformation(ability, items[i]) IN
       IF info >= max_information
       THEN BestItemLastTie(items, i + 1, ability, items[i].id, info)
       ELSE BestItemLastTie(items, i + 1, ability, best_item, max_information)

\* Position of the most informative item of `items` from position i on:
\* a later item replaces the best one only when its information is greater.
RECURSIVE BestItem(_, _, _, _, _)
BestItem(items, i, ability, best_item, max_information) ==
  IF i > Len(items) THEN best_item
  ELSE LET info == CalculateInformation(ability, items[i]) IN
       IF info > max_information
       THEN BestItem(items, i + 1, ability, items[i].id, info)
       ELSE BestItem(items, i + 1, ability, best_item, max_information)

\* The id of the next item, 0 for None.
SelectNextQuestion(ability, skill_areas, used_item_ids, available_items) ==
  LET filtered_items == SelectSeq(available_items,
        LAMBDA item : /\ Overlaps(skill_areas, item)
                      /\ item.id \notin used_item_ids
                      /\ item.is_active)
  IN  IF filtered_items = << >> THEN 0
      ELSE BestItem(filtered_items, 1, ability, 0, -1)

CheckTerminationCriteriaMaxFirst(session, cfg) ==
  IF HasReachedMaxQuestions(session, cfg.max_questions) THEN TRUE
  ELSE IF ~HasReachedMinQuestions(session, cfg.min_questions) THEN FALSE
  ELSE IF HasSufficientPrecision(session, cfg.stopping_se) THEN TRUE
  ELSE FALSE

CheckTerminationCriteria(session, cfg) ==
  IF ~HasReachedMinQuestions(session, cfg.min_questions) THEN FALSE
  ELSE IF HasReachedMaxQuestions(session, cfg.max_questions) THEN TRUE
  ELSE IF HasSufficientPrecision(session, cfg.stopping_se) THEN TRUE
  ELSE FALSE

ScoreResponseFullMarks(item, selected) ==
  IF item.correct_answer = NoAnswer \/ selected = NoAnswer
  THEN [ok |-> FALSE, score |-> 0, is_correct |-> FALSE]
  ELSE LET is_correct == Normalize(item.correct_answer) = Normalize(selected)
       IN  [ok |-> TRUE, score |-> 100, is_correct |-> is_correct]

\* [ok, score, is_correct]; ok = FALSE is the ValueError for a missing answer.
ScoreResponse(item, selected) ==
  IF item.correct_answer = NoAnswer \/ selected = NoAnswer
  THEN [ok |-> FALSE, score |-> 0, is_correct |-> FALSE]
  ELSE LET is_correct == Normalize(item.correct_answer) = Normalize(selected)
       IN  [ok |-> TRUE, score |-> IF is_correct THEN 100 ELSE 0,
            is_correct |-> is_correct]

\* ------------------------------------------------------------ repositories
GetItem(item_id) == ItemCatalog[item_id]

\* JSON_OVERLAPS(skill_area, skill_areas), is_active, id NOT IN exclude.
GetItemsBySkillAreas(skill_areas, exclude_item_ids) ==
  SelectSeq(ItemCatalog,
    LAMBDA item : /\ Overlaps(skill_areas, item)
                  /\ item.is_active
                  /\ item.id \notin exclude_item_ids)

\* The id of the first IN_PROGRESS session row, 0 when there is none.
FindActiveSession(sess) ==
  LET A == {i \in 1..Len(sess) : sess[i].status = "IN_PROGRESS"}
  IN  IF A = {} THEN 0 ELSE CHOOSE i \in A : \A j \in A : i <= j

ToDomainStatusBlind(asg, sess, resp) ==
  LET active == IF sess = << >> THEN 0 ELSE 1 IN
  [exists |-> TRUE, status |-> asg.status, due_at |-> asg.due_at,
   session |->
     IF active = 0 THEN NoSession
     ELSE [id |-> sess[active].id, status |-> "IN_PROGRESS",
           current_ability |-> sess[active].current_ability,
           standard_error |-> sess[active].standard_error,
           questions_answered |-> sess[active].questions_answered,
           rubric_snapshot |-> sess[active].rubric_snapshot,
           template_snapshot |-> sess[active].template_snapshot,
           started_at |-> sess[active].started_at,
           completed_at |-> sess[active].completed_at,
           expires_at |-> sess[active].expires_at,
           responses |-> SelectSeq(resp, LAMBDA r : r.session_id = active)]]

ToDomain(asg, sess, resp) ==
  LET active == FindActiveSession(sess) IN
  [exists |-> TRUE, status |-> asg.status, due_at |-> asg.due_at,
   session |->
     IF active = 0 THEN NoSession
     ELSE [id |-> sess[active].id, status |-> sess[active].status,
           current_ability |-> sess[active].current_ability,
           standard_error |-> sess[active].standard_error,
           questions_answered |-> sess[active].questions_answered,
           rubric_snapshot |-> sess[active].rubric_snapshot,
           template_snapshot |-> sess[active].template_snapshot,
           started_at |-> sess[active].started_at,
           completed_at |-> sess[active].completed_at,
           expires_at |-> sess[active].expires_at,
           responses |-> SelectSeq(resp, LAMBDA r : r.session_id = active)]]

\* Assignment 1 is the only assigned_assessment row.
GetById(assigned_id, asg, sess, resp) ==
  IF assigned_id # 1 THEN NoAggregate ELSE ToDomain(asg, sess, resp)

GetBySessionId(session_id, asg, sess, resp) ==
  IF session_id \notin 1..Len(sess) THEN NoAggregate
  ELSE GetById(1, asg, sess, resp)

\* An attribute assignment on a loaded row: the flush writes the column only
\* when the value differs from the one this unit of work loaded.
Flush(current, loaded, new) == IF new = loaded THEN current ELSE new

\* Index in `loaded`'s responses of the response with this id, 0 if absent.
LoadedResponse(loaded, id) ==
  LET H == {i \in 1..Len(loaded.session.responses) : loaded.session.responses[i].id = id}
  IN  IF H = {} THEN 0 ELSE CHOOSE i \in H : TRUE

SaveResponse(resp, loaded, r) ==
  IF r.id \in 1..Len(resp)
  THEN LET k == LoadedResponse(loaded, r.id)
           old == IF k = 0 THEN resp[r.id] ELSE loaded.session.responses[k]
       IN [resp EXCEPT ![r.id] = [@ EXCEPT
             !.response_data = Flush(@, old.response_data, r.response_data),
             !.is_correct = Flush(@, old.is_correct, r.is_correct),
             !.raw_score = Flush(@, old.raw_score, r.raw_score),
             !.submitted_at = Flush(@, old.submitted_at, r.submitted_at)]]
  ELSE Append(resp, r)

RECURSIVE SaveResponses(_, _, _, _)
SaveResponses(resp, loaded, rs, i) ==
  IF i > Len(rs) THEN resp
  ELSE SaveResponses(SaveResponse(resp, loaded, rs[i]), loaded, rs, i + 1)

SaveSessionRowKeepsCounter(sess, loaded, s) ==
  IF s.id \in 1..Len(sess)
  THEN LET old == IF loaded.session.id = s.id THEN loaded.session ELSE sess[s.id]
       IN [sess EXCEPT ![s.id] = [@ EXCEPT
             !.current_ability = Flush(@, old.current_ability, s.current_ability),
             !.standard_error = Flush(@, old.standard_error, s.standard_error),
             !.status = Flush(@, old.status, s.status),
             !.completed_at = Flush(@, old.completed_at, s.completed_at)]]
  ELSE Append(sess,
         [id |-> s.id, status |-> s.status, current_ability |-> s.current_ability,
          standard_error |-> s.standard_error,
          questions_answered |-> s.questions_answered,
          rubric_snapshot |-> s.rubric_snapshot,
          template_snapshot |-> s.template_snapshot,
          started_at |-> s.started_at,
          completed_at |-> s.completed_at, expires_at |-> s.expires_at])

SaveSessionRow(sess, loaded, s) ==
  IF s.id \in 1..Len(sess)
  THEN LET old == IF loaded.session.id = s.id THEN loaded.session ELSE sess[s.id]
       IN [sess EXCEPT ![s.id] = [@ EXCEPT
             !.current_ability = Flush(@, old.current_ability, s.current_ability),
             !.standard_error = Flush(@, old.standard_error, s.standard_error),
             !.questions_answered = Flush(@, old.questions_answered, s.questions_answered),
             !.status = Flush(@, old.status, s.status),
             !.completed_at = Flush(@, old.completed_at, s.completed_at)]]
  ELSE Append(sess,
         [id |-> s.id, status |-> s.status, current_ability |-> s.current_ability,
          standard_error |-> s.standard_error,
          questions_answered |-> s.questions_answered,
          rubric_snapshot |-> s.rubric_snapshot,
          template_snapshot |-> s.template_snapshot,
          started_at |-> s.started_at,
          completed_at |-> s.completed_at, expires_at |-> s.expires_at])

\* save(): the store's three tables after the unit of work commits.
Save(asg, sess, resp, loaded, agg) ==
  [assignment |-> [asg EXCEPT !.status = Flush(@, loaded.status, agg.status)],
   sessions |-> IF agg.session # NoSession
                THEN SaveSessionRow(sess, loaded, agg.session) ELSE sess,
   responses |-> IF agg.session # NoSession
                 THEN SaveResponses(resp, loaded, agg.session.responses, 1) ELSE resp]

\* ------------------------------------------------------------ mappers
\* The content dict of an item row: the stem, the option list, the key of
\* the correct option; item 2 carries no instruction, item 3 an extra key,
\* item 6 no correct_answer.
Content(item) ==
  LET keys == CASE item.id = 2 -> {"item", "options", "correct_answer"}
                []  item.id = 3 -> {"item", "options", "instruction",
                                    "correct_answer", "explanation"}
                []  item.correct_answer = NoAnswer ->
                                   {"item", "options", "instruction"}
                []  OTHER       -> {"item", "options", "instruction",
                                    "correct_answer"}
  IN  [k \in keys |->
         CASE k = "item"           -> "stem"
           [] k = "options"        -> << "a", "b", "c" >>
           [] k = "instruction"    -> "choose one"
           [] k = "correct_answer" -> item.correct_answer
           [] OTHER                -> "note"]

\* dict.get(key, default)
Get(d, key, default) == IF key \in DOMAIN d THEN d[key] ELSE default

CreateItemContentDto(content, item_type) ==
  [item |-> Get(content, "item", ""),
   options |-> Get(content, "options", << >>),
   instruction |-> Get(content, "instruction", "")]

MapAssessmentItemToPrivateDto(item) ==
  [id |-> item.id,
   content |-> CreateItemContentDto(Content(item), "multiple_choice"),
   item_type |-> "multiple_choice",
   skill_area |-> item.skill_area,
   correct_answer |-> Get(Content(item), "correct_answer", NoAnswer)]

MapAssessmentItemToPublicDto(item) ==
  [id |-> item.id,
   content |-> CreateItemContentDto(Content(item), "multiple_choice"),
   item_type |-> "multiple_choice",
   skill_area |-> item.skill_area]

BuildProgressDto(session, cfg) ==
  [questions_completed |-> session.questions_answered,
   max_questions |-> cfg.max_questions,
   current_ability |-> session.current_ability,
   standard_error |-> session.standard_error]

\* ------------------------------------------------------------ interactors
\* What execute() comes to: err is "ok" or the type_ of the problem raised
\* ("ValueError" for a domain ValueError); saved says whether save() ran
\* before a commit; finalized is the id of the response submit_response
\* finalized (0: none); presented the id of the response present_question
\* appended (0: none); decision is what check_termination_criteria said
\* ("none" when it was not asked); pairs the (response, score, item) triples
\* handed to the estimator.
Outcome(err, agg, saved, session_id, question, is_complete, is_correct, finalized, presented) ==
  [err |-> err, agg |-> agg, saved |-> saved, session_id |-> session_id,
   question |-> question, is_complete |-> is_complete, is_correct |-> is_correct,
   finalized |-> finalized, presented |-> presented, decision |-> "none",
   pairs |-> << >>]

Raise(err, agg) == Outcome(err, agg, FALSE, 0, 0, FALSE, FALSE, 0, 0)

StartPlacementTestExecuteSavesEmpty(assignment_agg, cat, template, cfg, now, session_id, response_id) ==
  IF ~assignment_agg.exists THEN Raise("assigned-assessment-not-found", assignment_agg)
  ELSE IF cat = "no_template" THEN Raise("assessment-configuration-not-found", assignment_agg)
  ELSE IF cat = "no_config" THEN Raise("assessment-configuration-not-found", assignment_agg)
  ELSE IF HasActiveSession(assignment_agg) /\ GetPendingResponse(assignment_agg.session) # 0
  THEN LET pending_response ==
             assignment_agg.session.responses[GetPendingResponse(assignment_agg.session)]
       IN  Outcome("ok", assignment_agg, FALSE, assignment_agg.session.id,
                   GetItem(pending_response.item_id).id, FALSE, FALSE, 0, 0)
  ELSE LET expires_at == now + cfg.time_limit
           started == StartSessionOp(assignment_agg, session_id, now, expires_at,
                                     cfg.starting_ability, template.rubric,
                                     [template_id |-> template.id,
                                      name |-> template.name])
       IN
       IF ~started.ok THEN Raise("ValueError", assignment_agg)
       ELSE LET available_items == GetItemsBySkillAreas(cfg.skill_areas, {})
                first_question == SelectNextQuestion(cfg.starting_ability,
                                      cfg.skill_areas, {}, available_items)
            IN
            IF first_question = 0
            THEN Outcome("ok", started.agg, TRUE, session_id, 0, FALSE, FALSE, 0, 0)
            ELSE LET presented == PresentQuestion(started.agg, response_id,
                                                  first_question, now)
                 IN  Outcome("ok", presented.agg, TRUE, session_id, first_question,
                             FALSE, FALSE, 0, response_id)

StartPlacementTestExecuteResumePresents(assignment_agg, cat, template, cfg, now, session_id, response_id) ==
  IF ~assignment_agg.exists THEN Raise("assigned-assessment-not-found", assignment_agg)
  ELSE IF cat = "no_template" THEN Raise("assessment-configuration-not-found", assignment_agg)
  ELSE IF cat = "no_config" THEN Raise("assessment-configuration-not-found", assignment_agg)
  ELSE IF HasActiveSession(assignment_agg) /\ GetPendingResponse(assignment_agg.session) # 0
  THEN LET pending_response ==
             assignment_agg.session.responses[GetPendingResponse(assignment_agg.session)]
           presented == PresentQuestion(assignment_agg, response_id,
                                        pending_response.item_id, now)
       IN  Outcome("ok", presented.agg, TRUE, assignment_agg.session.id,
                   GetItem(pending_response.item_id).id, FALSE, FALSE, 0, response_id)
  ELSE LET expires_at == now + cfg.time_limit
           started == StartSessionOp(assignment_agg, session_id, now, expires_at,
                                     cfg.starting_ability, template.rubric,
                                     [template_id |-> template.id,
                                      name |-> template.name])
       IN
       IF ~started.ok THEN Raise("ValueError", assignment_agg)
       ELSE LET available_items == GetItemsBySkillAreas(cfg.skill_areas, {})
                first_question == SelectNextQuestion(cfg.starting_ability,
                                      cfg.skill_areas, {}, available_items)
            IN
            IF first_question = 0 THEN Raise("item-not-found", started.agg)
            ELSE LET presented == PresentQuestion(started.agg, response_id,
                                                  first_question, now)
                 IN  Outcome("ok", presented.agg, TRUE, session_id, first_question,
                             FALSE, FALSE, 0, response_id)

StartPlacementTestExecute(assignment_agg, cat, template, cfg, now, session_id, response_id) ==
  IF ~assignment_agg.exists THEN Raise("assigned-assessment-not-found", assignment_agg)
  ELSE IF cat = "no_template" THEN Raise("assessment-configuration-not-found", assignment_agg)
  ELSE IF cat = "no_config" THEN Raise("assessment-configuration-not-found", assignment_agg)
  ELSE IF HasActiveSession(assignment_agg) /\ GetPendingResponse(assignment_agg.session) # 0
  THEN LET pending_response ==
             assignment_agg.session.responses[GetPendingResponse(assignment_agg.session)]
       IN  Outcome("ok", assignment_agg, FALSE, assignment_agg.session.id,
                   GetItem(pending_response.item_id).id, FALSE, FALSE, 0, 0)
  ELSE LET expires_at == now + cfg.time_limit
           started == StartSessionOp(assignment_agg, session_id, now, expires_at,
                                     cfg.starting_ability, template.rubric,
                                     [template_id |-> template.id,
                                      name |-> template.name])
       IN
       IF ~started.ok THEN Raise("ValueError", assignment_agg)
       ELSE LET available_items == GetItemsBySkillAreas(cfg.skill_areas, {})
                first_question == SelectNextQuestion(cfg.starting_ability,
                                      cfg.skill_areas, {}, available_items)
            IN
            IF first_question = 0 THEN Raise("item-not-found", started.agg)
            ELSE LET presented == PresentQuestion(started.agg, response_id,
                                                  first_question, now)
                 IN  Outcome("ok", presented.agg, TRUE, session_id, first_question,
                             FALSE, FALSE, 0, response_id)

\* _select_next_question, after the answer was scored and the estimate updated.
SelectNextQuestionStepAlwaysCompletes(agg, cfg, new_ability, is_correct, finalized, now2, response_id) ==
  LET completed == CompleteAssessment(agg, now2)
  IN  Outcome("ok", completed.agg, TRUE, agg.session.id, 0,
              TRUE, is_correct, finalized, 0)

SelectNextQuestionStep(agg, cfg, new_ability, is_correct, finalized, now2, response_id) ==
  LET answered_ids == GetAnsweredItemIds(agg.session)
      available_items == GetItemsBySkillAreas(cfg.skill_areas, answered_ids)
      next_question == SelectNextQuestion(new_ability, cfg.skill_areas,
                                          answered_ids, available_items)
  IN
  IF next_question # 0
  THEN LET presented == PresentQuestion(agg, response_id, next_question, now2)
       IN  Outcome("ok", presented.agg, TRUE, agg.session.id, next_question,
                   FALSE, is_correct, finalized, response_id)
  ELSE LET completed == CompleteAssessment(agg, now2)
       IN  Outcome("ok", completed.agg, TRUE, agg.session.id, 0,
                   TRUE, is_correct, finalized, 0)

SubmitAnswerExecute(assignment_agg, cat, cfg, selected, estimate, now, now2, response_id) ==
  IF ~assignment_agg.exists \/ assignment_agg.session = NoSession
  THEN Raise("session-not-found", assignment_agg)
  ELSE IF ~CanAcceptAnswer(assignment_agg.session, now)
  THEN Raise("invalid-session-state", assignment_agg)
  ELSE IF GetPendingResponse(assignment_agg.session) = 0
  THEN Raise("session-not-found", assignment_agg)
  ELSE IF ~HasValidResponse(selected)
  THEN Raise("invalid-response", assignment_agg)
  ELSE IF cat = "no_config"
  THEN Raise("assessment-configuration-not-found", assignment_agg)
  ELSE
    LET pending_response ==
          assignment_agg.session.responses[GetPendingResponse(assignment_agg.session)]
        item_entity == GetItem(pending_response.item_id)
        scored == ScoreResponse(item_entity, selected)
    IN
    IF ~scored.ok THEN Raise("ValueError", assignment_agg)
    ELSE
      LET previous_responses == GetSubmittedResponses(assignment_agg.session)
          \* get_item finds every item a response was presented for
          previous_items == [i \in 1..Len(previous_responses) |->
                               GetItem(previous_responses[i].item_id)]
          estimated == EstimationPairs(previous_responses, previous_items,
                                       item_entity, scored.score)
          pairs == [i \in 1..Len(estimated) |->
                      [response_id |-> estimated[i].response_id,
                       score |-> estimated[i].score,
                       item_id |-> estimated[i].item.id]]
          submitted == SubmitResponse(assignment_agg, selected, scored.is_correct,
                                      scored.score, now)
          updated == UpdateAbilityEstimate(submitted.agg, estimate.ability,
                                           estimate.standard_error)
          should_complete == CheckTerminationCriteria(updated.agg.session, cfg)
      IN
      IF should_complete
      THEN LET completed == CompleteAssessment(updated.agg, now)
           IN  [Outcome("ok", completed.agg, TRUE, updated.agg.session.id, 0,
                        TRUE, scored.is_correct, pending_response.id, 0)
                  EXCEPT !.decision = "terminate", !.pairs = pairs]
      ELSE [SelectNextQuestionStep(updated.agg, cfg, estimate.ability,
                                   scored.is_correct, pending_response.id, now2,
                                   response_id)
              EXCEPT !.decision = "continue", !.pairs = pairs]

\* ------------------------------------------------------------ state
VARIABLES
  assignment,   \* the assigned_assessment row: [status, due_at]
  sessions,     \* the assessment_session rows, committed
  responses,    \* the assessment_response rows, committed
  clock,        \* the wall clock
  config,       \* the assessment_config row of the template
  catalog,      \* which of template / config exist
  pc,           \* per worker: "idle", or the request whose unit of work is open
  req,          \* per worker: the open request's inputs
  view,         \* per worker: the aggregate its unit of work loaded
  last,         \* the last request that finished, and what it returned
  startRet,     \* what StartSession last returned, and how many times it
                \* returned (up to 2), since the last SubmitAnswer
  scored,       \* per response id: how many requests finalized it
  begun,        \* requests begun by the interleaved workers
  uow,          \* how the last unit of work ended
  sel,          \* a call of the item selector: its arguments and its result
  mem,          \* an aggregate held in memory, the last operation called on
                \* it, its argument, whether it returned (ok) or raised, and
                \* the problem raised (err)
  fn            \* a call of a pure function: its name, its arguments and
                \* what it returned or raised

vars == << assignment, sessions, responses, clock, config, catalog,
           pc, req, view, last, startRet, scored, begun, uow, sel, mem, fn >>

NoRequest == [arg |-> 0, selected |-> << >>, now |-> 0]

NoReturn == [session_id |-> 0, question |-> 0, calls |-> 0]

NoCall == [name |-> "none"]

NoSelection ==
  [ability |-> 0, skill_areas |-> {}, used_item_ids |-> {},
   available_items |-> << >>, called |-> FALSE, result |-> 0]

\* The store and the request bookkeeping before any request.
InitStore ==
  /\ assignment \in [status : {"PENDING"}, due_at : {None, 0}]
  /\ sessions = << >>
  /\ responses = << >>
  /\ clock = 0
  /\ config \in Configs
  /\ catalog \in CatalogStates
  /\ pc = [w \in Workers |-> "idle"]
  /\ req = [w \in Workers |-> NoRequest]
  /\ view = [w \in Workers |-> NoAggregate]
  /\ last = [op |-> "none", arg |-> 0, err |-> "ok", session_id |-> 0,
             question |-> 0, is_complete |-> FALSE, is_correct |-> FALSE,
             decision |-> "none", pairs |-> << >>, flip |-> FALSE]
  /\ startRet = NoReturn
  /\ scored = [r \in 1..MaxResponses |-> 0]
  /\ begun = 0
  /\ uow = [exc |-> FALSE, calls |-> << >>, committed |-> FALSE, error |-> "none"]
  /\ fn = NoCall

Init ==
  /\ InitStore
  /\ sel = NoSelection
  /\ mem = [agg |-> NoAggregate, op |-> "none", arg |-> 0, ok |-> TRUE,
            err |-> "ok"]

\* ------------------------------------------------------------ unit of work
\* rollback(): session.rollback(), whose own failure is raised.
UowRollback(rollback_ok) ==
  [calls |-> << "rollback" >>, committed |-> FALSE,
   error |-> IF rollback_ok THEN "none" ELSE "database"]

UowCommitKeepsFailedWrite(commit_ok, rollback_ok) ==
  IF commit_ok
  THEN [calls |-> << "commit" >>, committed |-> TRUE, error |-> "none"]
  ELSE [calls |-> << "commit" >> \o UowRollback(rollback_ok).calls,
        committed |-> TRUE, error |-> "database"]

\* commit(): session.commit(); when that fails, rollback() and raise.
UowCommit(commit_ok, rollback_ok) ==
  IF commit_ok
  THEN [calls |-> << "commit" >>, committed |-> TRUE, error |-> "none"]
  ELSE [calls |-> << "commit" >> \o UowRollback(rollback_ok).calls,
        committed |-> FALSE, error |-> "database"]

AExitCommitsAnyway(exc, committed, commit_ok, rollback_ok) ==
  IF ~committed THEN UowCommit(commit_ok, rollback_ok)
  ELSE [calls |-> << >>, committed |-> TRUE, error |-> "none"]

\* __aexit__: exc says whether the body raised; error is what leaves the
\* with-block: "none", the body's exception ("body") or a failure of the
\* database session ("database").
AExit(exc, committed, commit_ok, rollback_ok) ==
  IF exc
  THEN LET r == UowRollback(rollback_ok)
       IN  [r EXCEPT !.error = IF r.error = "none" THEN "body" ELSE "database"]
  ELSE IF ~committed THEN UowCommit(commit_ok, rollback_ok)
  ELSE [calls |-> << >>, committed |-> TRUE, error |-> "none"]

\* The unit of work ends: commit after a clean body (the store takes what
\* save() wrote), rollback after a raise (the store keeps its rows).
\* commit_ok and rollback_ok say whether the database session's commit and
\* rollback succeed.
FinishWith(op, arg, loaded, out, commit_ok, rollback_ok) ==
  LET exit  == AExit(out.err # "ok", FALSE, commit_ok, rollback_ok)
      err   == CASE exit.error = "none" -> "ok"
                 [] exit.error = "body" -> out.err
                 [] OTHER               -> "database-error"
      store == IF exit.committed /\ out.saved
               THEN Save(assignment, sessions, responses, loaded, out.agg)
               ELSE [assignment |-> assignment, sessions |-> sessions,
                     responses |-> responses]
  IN
  /\ Len(store.sessions) <= MaxSessions
  /\ Len(store.responses) <= MaxResponses
  /\ assignment' = store.assignment
  /\ sessions' = store.sessions
  /\ responses' = store.responses
  /\ last' = [op |-> op, arg |-> arg, err |-> err, session_id |-> out.session_id,
              question |-> out.question, is_complete |-> out.is_complete,
              is_correct |-> out.is_correct, decision |-> out.decision,
              pairs |-> out.pairs, flip |-> ~last.flip]
  /\ startRet' = IF op # "start" THEN NoReturn
                 ELSE IF err = "ok"
                 THEN [session_id |-> out.session_id, question |-> out.question,
                       calls |-> IF startRet.calls < 2 THEN startRet.calls + 1 ELSE 2]
                 ELSE startRet
  /\ scored' = IF err = "ok" /\ out.finalized # 0
               THEN [scored EXCEPT ![out.finalized] = @ + 1] ELSE scored
  /\ uow' = [exc |-> out.err # "ok", calls |-> exit.calls,
             committed |-> exit.committed, error |-> exit.error]

Finish(op, arg, loaded, out) == FinishWith(op, arg, loaded, out, TRUE, TRUE)

\* --------------------------------------------- requests, one at a time
StartSession(assigned_id, template) ==
  /\ \A w \in Workers : pc[w] = "idle"
  /\ LET loaded == GetById(assigned_id, assignment, sessions, responses)
     IN  Finish("start", assigned_id, loaded,
                StartPlacementTestExecute(loaded, catalog, template, config, clock,
                                          Len(sessions) + 1, Len(responses) + 1))
  /\ UNCHANGED << clock, config, catalog, pc, req, view, begun, sel, mem, fn >>

SubmitAnswer(session_id, selected, estimate) ==
  /\ \A w \in Workers : pc[w] = "idle"
  /\ LET loaded == GetBySessionId(session_id, assignment, sessions, responses)
     IN  Finish("submit", session_id, loaded,
                SubmitAnswerExecute(loaded, catalog, config, selected, estimate,
                                    clock, clock, Len(responses) + 1))
  /\ UNCHANGED << clock, config, catalog, pc, req, view, begun, sel, mem, fn >>

Tick ==
  /\ clock < MaxClock
  /\ clock' = clock + 1
  /\ UNCHANGED << assignment, sessions, responses, config, catalog,
                  pc, req, view, last, startRet, scored, begun, uow, sel, mem, fn >>

\* The aggregate's other terminal transitions.  Neither interactor calls
\* them; they reach the store through a caller that loads the aggregate,
\* applies one to a session it finds, and saves.
CancelSession ==
  /\ \A w \in Workers : pc[w] = "idle"
  /\ LET loaded == GetById(1, assignment, sessions, responses)
         cancelled == CancelSessionOp(loaded)
     IN  /\ cancelled.ok
         /\ Finish("cancel", 1, loaded,
                   Outcome("ok", cancelled.agg, TRUE, loaded.session.id, 0,
                           FALSE, FALSE, 0, 0))
  /\ UNCHANGED << clock, config, catalog, pc, req, view, begun, sel, mem, fn >>

ExpireSession ==
  /\ \A w \in Workers : pc[w] = "idle"
  /\ LET loaded == GetById(1, assignment, sessions, responses)
         expired == ExpireSessionOp(loaded)
     IN  /\ expired.ok
         /\ Finish("expire", 1, loaded,
                   Outcome("ok", expired.agg, TRUE, loaded.session.id, 0,
                           FALSE, FALSE, 0, 0))
  /\ UNCHANGED << clock, config, catalog, pc, req, view, begun, sel, mem, fn >>

NextSeq ==
  \/ \E assigned_id \in {1, 2}, template \in Templates :
       StartSession(assigned_id, template)
  \/ CancelSession
  \/ ExpireSession
  \/ \E session_id \in 1..MaxSessions, selected \in SelectedOptions,
        estimate \in Estimates : SubmitAnswer(session_id, selected, estimate)
  \/ Tick

SpecSeq == Init /\ [][NextSeq]_vars

\* ------------------- requests, one at a time, on a database that may fail
StartSessionDb(assigned_id, template, commit_ok, rollback_ok) ==
  /\ \A w \in Workers : pc[w] = "idle"
  /\ LET loaded == GetById(assigned_id, assignment, sessions, responses)
     IN  FinishWith("start", assigned_id, loaded,
                    StartPlacementTestExecute(loaded, catalog, template, config, clock,
                                              Len(sessions) + 1, Len(responses) + 1),
                    commit_ok, rollback_ok)
  /\ UNCHANGED << clock, config, catalog, pc, req, view, begun, sel, mem, fn >>

SubmitAnswerDb(session_id, selected, estimate, commit_ok, rollback_ok) ==
  /\ \A w \in Workers : pc[w] = "idle"
  /\ LET loaded == GetBySessionId(session_id, assignment, sessions, responses)
     IN  FinishWith("submit", session_id, loaded,
                    SubmitAnswerExecute(loaded, catalog, config, selected, estimate,
                                        clock, clock, Len(responses) + 1),
                    commit_ok, rollback_ok)
  /\ UNCHANGED << clock, config, catalog, pc, req, view, begun, sel, mem, fn >>

NextDb ==
  \/ \E assigned_id \in {1, 2}, commit_ok \in BOOLEAN, rollback_ok \in BOOLEAN :
       StartSessionDb(assigned_id, SeededTemplate, commit_ok, rollback_ok)
  \/ \E session_id \in 1..MaxSessions, selected \in SelectedOptions,
        estimate \in Estimates, commit_ok \in BOOLEAN, rollback_ok \in BOOLEAN :
       SubmitAnswerDb(session_id, selected, estimate, commit_ok, rollback_ok)
  \/ Tick

\* The configs whose question limits are the seeded shape (min <= max, both
\* positive); every catalog state and skill-area set remains.
InitDb ==
  /\ Init
  /\ config.min_questions \in 1..2
  /\ config.max_questions = 2

SpecDb == InitDb /\ [][NextDb]_vars

\* --------------------------------------------- the selector, called alone
MaxPool == 3

\* Candidate pools: up to MaxPool distinct item rows in any order.
Pools ==
  {p \in UNION {[1..n -> 1..Len(ItemCatalog)] : n \in 0..MaxPool} :
     \A i, j \in DOMAIN p : i # j => p[i] # p[j]}

InitSelect ==
  /\ Init
  /\ assignment.due_at = None /\ catalog = "ok"
  /\ config = [min_questions |-> 2, max_questions |-> 2, stopping_se |-> 30,
               skill_areas |-> {"grammar", "vocabulary"}, time_limit |-> 1,
               starting_ability |-> 0]

NewCall ==
  /\ ~sel.called
  /\ \E ability \in 0..1,
        skill_areas \in {{}, {"grammar"}, {"grammar", "vocabulary"}, {"listening"}},
        used_item_ids \in {{}, {1}, {1, 2}},
        p \in Pools :
       sel' = [ability |-> ability, skill_areas |-> skill_areas,
               used_item_ids |-> used_item_ids,
               available_items |-> [i \in DOMAIN p |-> ItemCatalog[p[i]]],
               called |-> TRUE,
               result |-> SelectNextQuestion(ability, skill_areas, used_item_ids,
                             [i \in DOMAIN p |-> ItemCatalog[p[i]]])]
  /\ UNCHANGED << assignment, sessions, responses, clock, config, catalog,
                  pc, req, view, last, startRet, scored, begun, uow, mem, fn >>

NextSelect == NewCall

SpecSelect == InitSelect /\ [][NextSelect]_vars

\* ------------------------------- the aggregate, operated on in memory
MaxHeld == 2

\* A PENDING assignment as created externally, held in memory with no session.
InitAggregate ==
  /\ InitStore
  /\ assignment.due_at = None /\ catalog = "ok"
  /\ config = [min_questions |-> 2, max_questions |-> 2, stopping_se |-> 30,
               skill_areas |-> {"grammar", "vocabulary"}, time_limit |-> 1,
               starting_ability |-> 0]
  /\ sel = NoSelection
  /\ \E due_at \in {None, 1} :
       mem = [agg |-> [exists |-> TRUE, status |-> "PENDING", due_at |-> due_at,
                       session |-> NoSession],
              op |-> "none", arg |-> 0, ok |-> TRUE, err |-> "ok"]

\* The operation `op` was called with `arg`; res is [ok, agg] as it left the
\* aggregate.
Called(op, arg, res) ==
  /\ mem' = [agg |-> res.agg, op |-> op, arg |-> arg, ok |-> res.ok,
             err |-> IF res.ok THEN "ok" ELSE "ValueError"]
  /\ UNCHANGED << assignment, sessions, responses, clock, config, catalog,
                  pc, req, view, last, startRet, scored, begun, uow, sel, fn >>

CallStartSession(starting_ability, template) ==
  /\ ~sel.called
  /\ Called("start_session", starting_ability,
         StartSessionOp(mem.agg, 1, clock, clock + 1, starting_ability,
                        template.rubric,
                        [template_id |-> template.id, name |-> template.name]))

CallPresentQuestion(item_id) ==
  /\ mem.agg.session # NoSession => Len(mem.agg.session.responses) < MaxHeld
  /\ Called("present_question", item_id,
            PresentQuestion(mem.agg,
              IF mem.agg.session = NoSession THEN 1
              ELSE Len(mem.agg.session.responses) + 1,
              item_id, clock))

CallSubmitResponse(selected, is_correct) ==
  /\ ~sel.called
  /\ Called("submit_response", IF selected = << >> THEN 0 ELSE 1,
         SubmitResponse(mem.agg, selected, is_correct,
                        IF is_correct THEN 100 ELSE 0, clock))

CallUpdateAbilityEstimate(estimate) ==
  /\ ~sel.called
  /\ Called("update_ability_estimate", estimate.ability,
         UpdateAbilityEstimate(mem.agg, estimate.ability, estimate.standard_error))

CallCompleteAssessment ==
  /\ ~sel.called
  /\ Called("complete_assessment", 0, CompleteAssessment(mem.agg, clock))

CallCancelSession ==
  /\ ~sel.called
  /\ Called("cancel_session", 0, CancelSessionOp(mem.agg))

CallExpireSession ==
  /\ ~sel.called
  /\ Called("expire_session", 0, ExpireSessionOp(mem.agg))

\* The body of SubmitAnswerInteractor.execute run on the held aggregate:
\* its checks, the aggregate operations it calls, and what it raises.
CallSubmitAnswer(selected, estimate) ==
  LET next_id == IF mem.agg.session = NoSession THEN 1
                 ELSE Len(mem.agg.session.responses) + 1
      out == SubmitAnswerExecute(mem.agg, catalog, config, selected, estimate,
                                 clock, clock, next_id)
  IN
  /\ out.agg.session # NoSession => Len(out.agg.session.responses) <= MaxHeld
  /\ mem' = [agg |-> IF out.err = "ok" THEN out.agg ELSE mem.agg,
             op |-> "SubmitAnswer", arg |-> IF selected = << >> THEN 0 ELSE 1,
             ok |-> out.err = "ok", err |-> out.err]
  /\ UNCHANGED << assignment, sessions, responses, clock, config, catalog,
                  pc, req, view, last, startRet, scored, begun, uow, sel, fn >>

NextAggregate ==
  \/ \E selected \in {<< >>, << "c" >>}, estimate \in Estimates :
       CallSubmitAnswer(selected, estimate)
  \/ \E starting_ability \in 0..1 :
       CallStartSession(starting_ability, SeededTemplate)
  \/ \E item_id \in {1} : CallPresentQuestion(item_id)
  \/ \E selected \in {<< >>, << "c" >>}, is_correct \in {TRUE} :
       CallSubmitResponse(selected, is_correct)
  \/ \E estimate \in Estimates : CallUpdateAbilityEstimate(estimate)
  \/ CallCompleteAssessment
  \/ CallCancelSession
  \/ CallExpireSession
  \/ Tick

SpecAggregate == InitAggregate /\ [][NextAggregate]_vars

\* ----------------------------------------- score_response, called alone
Alphabet == {" ", "b", "B", "c"}

\* content["correct_answer"] and response_data["selected_option"]: strings
\* of up to MaxLen characters, or the key missing.
Answers == UNION {[1..n -> Alphabet] : n \in 0..MaxLen} \cup {NoAnswer}

CallScoreResponse(correct_answer, student_answer) ==
  /\ fn = NoCall
  /\ fn' = [name |-> "score_response",
            correct_answer |-> correct_answer, student_answer |-> student_answer,
            out |-> ScoreResponse([correct_answer |-> correct_answer],
                                  student_answer)]
  /\ UNCHANGED << assignment, sessions, responses, clock, config, catalog,
                  pc, req, view, last, startRet, scored, begun, uow, sel, mem >>

NextScore ==
  \E correct_answer \in Answers, student_answer \in Answers :
    CallScoreResponse(correct_answer, student_answer)

SpecScore == InitSelect /\ [][NextScore]_vars

\* ------------------------------------------------ the kernel, called alone
\* Item parameters handed to the kernel: ordinary ones, a large
\* discrimination, and values that are not finite.
KernelItems ==
  << [id |-> 1, discrimination |-> 1,   difficulty |-> 0],
     [id |-> 2, discrimination |-> 20,  difficulty |-> 5],
     [id |-> 3, discrimination |-> 200, difficulty |-> 0],
     [id |-> 4, discrimination |-> NaN, difficulty |-> 0],
     [id |-> 5, discrimination |-> 1,   difficulty |-> NegInf] >>

\* A submitted response: the item it answered and its raw_score.
AnsweredChoices ==
  {[item_id |-> 1, raw_score |-> 100], [item_id |-> 1, raw_score |-> 0],
   [item_id |-> 3, raw_score |-> 100], [item_id |-> 4, raw_score |-> 100]}

\* The submitted responses of a session, up to MaxPairs of them.
Answered == UNION {[1..n -> AnsweredChoices] : n \in 0..MaxPairs}

ResponsesOfAnswered(answered) ==
  [i \in 1..Len(answered) |->
     [id |-> i, item_id |-> answered[i].item_id,
      raw_score |-> answered[i].raw_score, is_correct |-> "null"]]

\* The items list for the responses: each response's item, with the item at
\* position skip left out (0: none), and an extra item appended if extra.
ItemsOfAnswered(answered, skip, extra) ==
  LET kept == SelectSeq([i \in 1..Len(answered) |-> i], LAMBDA i : i # skip)
  IN  [k \in 1..Len(kept) |-> KernelItems[answered[kept[k]].item_id]]
      \o (IF extra THEN << KernelItems[1] >> ELSE << >>)

CallCalculateInformation(ability, discrimination, difficulty) ==
  /\ fn = NoCall
  /\ LET item == [id |-> 0, discrimination |-> discrimination,
                  difficulty |-> difficulty]
     IN  fn' = [name |-> "calculate_information", ability |-> ability,
                responses |-> << >>, items |-> << item >>, given |-> << item >>,
                out |-> [ok |-> TRUE,
                         information |-> CalculateInformation(ability, item)]]
  /\ UNCHANGED << assignment, sessions, responses, clock, config, catalog,
                  pc, req, view, last, startRet, scored, begun, uow, sel, mem >>

CallCalculateAbility(answered, skip, extra) ==
  /\ fn = NoCall
  /\ skip <= Len(answered) /\ (extra => skip = 0)
  /\ LET rs == ResponsesOfAnswered(answered)
         is == ItemsOfAnswered(answered, skip, extra)
     IN  fn' = [name |-> "calculate_ability", responses |-> rs, items |-> is,
                given |-> is, out |-> CalculateAbility(rs, is)]
  /\ UNCHANGED << assignment, sessions, responses, clock, config, catalog,
                  pc, req, view, last, startRet, scored, begun, uow, sel, mem >>

CallEstimateAbilityWithItem(answered, skip, extra, current_item, current_response_score) ==
  /\ fn = NoCall
  /\ skip <= Len(answered) /\ (extra => skip = 0)
  /\ LET rs == ResponsesOfAnswered(answered)
         is == ItemsOfAnswered(answered, skip, extra)
     IN  fn' = [name |-> "estimate_ability_with_item", responses |-> rs,
                items |-> is, given |-> Append(is, current_item),
                out |-> EstimateAbilityWithItem(rs, is, current_item,
                                                current_response_score)]
  /\ UNCHANGED << assignment, sessions, responses, clock, config, catalog,
                  pc, req, view, last, startRet, scored, begun, uow, sel, mem >>

NextKernel ==
  \/ \E ability \in -1..1, discrimination \in {0, 1, 2, NaN, PosInf, NegInf},
        difficulty \in {0, 1, NaN, PosInf, NegInf} :
       CallCalculateInformation(ability, discrimination, difficulty)
  \/ \E answered \in Answered, skip \in 0..MaxPairs, extra \in BOOLEAN :
       CallCalculateAbility(answered, skip, extra)
  \/ \E answered \in Answered, skip \in 0..MaxPairs, extra \in BOOLEAN,
        current \in 1..Len(KernelItems), current_response_score \in {0, 100} :
       CallEstimateAbilityWithItem(answered, skip, extra, KernelItems[current],
                                   current_response_score)

SpecKernel == InitSelect /\ [][NextKernel]_vars

\* --------------------------------------------- requests, interleaved
\* A request opens its unit of work and loads the aggregate; other requests
\* may load and commit before it saves and commits.
BeginStart(w, assigned_id) ==
  /\ pc[w] = "idle"
  /\ begun < MaxInterleaved
  /\ begun' = begun + 1
  /\ pc' = [pc EXCEPT ![w] = "start"]
  /\ req' = [req EXCEPT ![w] = [arg |-> assigned_id, selected |-> << >>, now |-> 0]]
  /\ view' = [view EXCEPT ![w] = GetById(assigned_id, assignment, sessions, responses)]
  /\ UNCHANGED << assignment, sessions, responses, clock, config, catalog,
                  last, startRet, scored, uow, sel, mem, fn >>

EndStart(w, template) ==
  /\ pc[w] = "start"
  /\ Finish("start", req[w].arg, view[w],
            StartPlacementTestExecute(view[w], catalog, template, config, clock,
                                      Len(sessions) + 1, Len(responses) + 1))
  /\ pc' = [pc EXCEPT ![w] = "idle"]
  /\ req' = [req EXCEPT ![w] = NoRequest]
  /\ view' = [view EXCEPT ![w] = NoAggregate]
  /\ UNCHANGED << clock, config, catalog, begun, sel, mem, fn >>

BeginSubmit(w, session_id, selected) ==
  /\ pc[w] = "idle"
  /\ begun < MaxInterleaved
  /\ begun' = begun + 1
  /\ pc' = [pc EXCEPT ![w] = "submit"]
  /\ req' = [req EXCEPT ![w] = [arg |-> session_id, selected |-> selected,
                                now |-> clock]]
  /\ view' = [view EXCEPT ![w] =
                 GetBySessionId(session_id, assignment, sessions, responses)]
  /\ UNCHANGED << assignment, sessions, responses, clock, config, catalog,
                  last, startRet, scored, uow, sel, mem, fn >>

EndSubmit(w, estimate) ==
  /\ pc[w] = "submit"
  /\ Finish("submit", req[w].arg, view[w],
            SubmitAnswerExecute(view[w], catalog, config, req[w].selected, estimate,
                                req[w].now, clock, Len(responses) + 1))
  /\ pc' = [pc EXCEPT ![w] = "idle"]
  /\ req' = [req EXCEPT ![w] = NoRequest]
  /\ view' = [view EXCEPT ![w] = NoAggregate]
  /\ UNCHANGED << clock, config, catalog, begun, sel, mem, fn >>

Next ==
  \/ \E w \in Workers, assigned_id \in {1, 2} : BeginStart(w, assigned_id)
  \/ \E w \in Workers, template \in Templates : EndStart(w, template)
  \/ \E w \in Workers, session_id \in 1..MaxSessions, selected \in SelectedOptions :
        BeginSubmit(w, session_id, selected)
  \/ \E w \in Workers, estimate \in Estimates : EndSubmit(w, estimate)
  \/ Tick

\* Interleavings are explored from one assignment without due date whose
\* config asks for exactly two questions.
InitInterleaved ==
  /\ Init
  /\ assignment.due_at = None
  /\ catalog = "ok"
  /\ config = [min_questions |-> 2, max_questions |-> 2, stopping_se |-> 30,
               skill_areas |-> {"grammar", "vocabulary"},
               time_limit |-> 1, starting_ability |-> 0]

Spec == InitInterleaved /\ [][Next]_vars

\* ------------------------------------------------------------ properties
PendingOf(resp, sid) ==
  {i \in 1..Len(resp) : resp[i].session_id = sid /\ resp[i].submitted_at = None}

SubmittedOf(resp, sid) ==
  {i \in 1..Len(resp) : resp[i].session_id = sid /\ resp[i].submitted_at # None}

ResponsesOf(resp, sid) == SelectSeq(resp, LAMBDA r : r.session_id = sid)

Terminal == {"COMPLETED", "EXPIRED", "CANCELLED"}

\* This step is a request of kind op with argument arg running to its end.
Finished(op, arg) ==
  last'.flip # last.flip /\ last'.op = op /\ last'.arg = arg

\* C1: after any sequence of requests, each run to commit or rollback, every
\* session has at most one response whose submitted_at is null.
C1_SinglePending ==
  \A sid \in 1..Len(sessions) : Cardinality(PendingOf(responses, sid)) <= 1

\* An answered session whose next question is pending, after an accepted answer.
C1_Witness ==
  /\ last.op = "submit" /\ last.err = "ok"
  /\ \E sid \in 1..Len(sessions) :
       /\ sessions[sid].questions_answered >= 1
       /\ Cardinality(PendingOf(responses, sid)) = 1

\* C2 (as stated): of two SubmitAnswer requests for the same session whose
\* units of work interleave, at most one finalizes the pending response: no
\* response is scored by two requests.
C2_ScoredOnce == \A r \in 1..MaxResponses : scored[r] <= 1

\* C3 (as stated): the store never holds more than one IN_PROGRESS session
\* of the assignment, however StartSession requests interleave.
C3_OneActiveSession ==
  Cardinality({i \in 1..Len(sessions) : sessions[i].status = "IN_PROGRESS"}) <= 1

\* C4: a session's questions_answered never decreases, and in every committed
\* state it equals the number of the session's responses with a non-null
\* submitted_at.
C4_MonotoneCounter ==
  [][\A sid \in 1..Len(sessions') :
       /\ sid <= Len(sessions) =>
            sessions'[sid].questions_answered >= sessions[sid].questions_answered
       /\ sessions'[sid].questions_answered
            = Cardinality(SubmittedOf(responses', sid))]_vars

\* A session with two submitted responses.
C4_Witness ==
  \E sid \in 1..Len(sessions) :
    /\ sessions[sid].questions_answered = 2
    /\ Cardinality(SubmittedOf(responses, sid)) = 2

\* C5: once a session is COMPLETED, EXPIRED or CANCELLED, every SubmitAnswer
\* for it fails, and leaves the session row (questions_answered included) and
\* the session's responses as they were: none finalized, none appended.
C5_TerminalFinality ==
  [][\A sid \in 1..Len(sessions) :
       (sessions[sid].status \in Terminal /\ Finished("submit", sid)) =>
         /\ last'.err # "ok"
         /\ sessions'[sid] = sessions[sid]
         /\ ResponsesOf(responses', sid) = ResponsesOf(responses, sid)]_vars

\* A SubmitAnswer has just failed against a terminal session that still
\* holds a pending response.
C5_Witness ==
  /\ last.op = "submit" /\ last.err # "ok"
  /\ last.arg \in 1..Len(sessions)
  /\ sessions[last.arg].status \in Terminal
  /\ PendingOf(responses, last.arg) # {}

\* C6: StartSession called again for the same assignment, with no SubmitAnswer
\* since the call that returned, succeeds and returns the same session_id and
\* the same first question.
C6_StartIdempotent ==
  [][(startRet # NoReturn /\ Finished("start", 1)) =>
       /\ last'.err = "ok"
       /\ last'.session_id = startRet.session_id
       /\ last'.question = startRet.question]_vars

\* StartSession has returned twice in a row.
C6_Witness == startRet.calls = 2

\* C7: the decision taken after a submit is: continue when questions_answered
\* < min_questions; otherwise terminate when questions_answered >=
\* max_questions; otherwise terminate when the standard error is non-null and
\* <= the stopping standard error; otherwise continue.
C7_TerminationPolicy ==
  (last.op = "submit" /\ last.err = "ok") =>
    LET s == sessions[last.arg] IN
    last.decision =
      IF s.questions_answered < config.min_questions THEN "continue"
      ELSE IF s.questions_answered >= config.max_questions THEN "terminate"
      ELSE IF s.standard_error # None /\ s.standard_error <= config.stopping_se
      THEN "terminate"
      ELSE "continue"

\* The decision was to continue below min_questions although max_questions
\* was reached.
C7_Witness ==
  /\ last.op = "submit" /\ last.err = "ok" /\ last.decision = "continue"
  /\ sessions[last.arg].questions_answered < config.min_questions
  /\ sessions[last.arg].questions_answered >= config.max_questions

\* The bound of C8 on one config: questions_answered never exceeds
\* max_questions, a session at max_questions is COMPLETED, and the accepted
\* SubmitAnswer that brought it there returned is_complete with no question.
FinishesByMax ==
  \A sid \in 1..Len(sessions) :
    /\ sessions[sid].questions_answered <= config.max_questions
    /\ sessions[sid].questions_answered = config.max_questions =>
         /\ sessions[sid].status = "COMPLETED"
         /\ (last.op = "submit" /\ last.err = "ok" /\ last.arg = sid) =>
              (last.is_complete /\ last.question = 0)

\* C8 (as stated): for every config with min_questions <= max_questions a
\* session's questions_answered never exceeds max_questions and the answer
\* reaching max_questions completes the session.
C8_AsStated == (config.min_questions <= config.max_questions) => FinishesByMax

\* C8 (amended): for every config with 1 <= max_questions and min_questions
\* <= max_questions, a session's questions_answered never exceeds
\* max_questions, and the accepted SubmitAnswer that brings it to
\* max_questions completes the session and returns is_complete with no next
\* question.
C8_MaxQuestionsBound ==
  (config.min_questions <= config.max_questions /\ config.max_questions >= 1)
    => FinishesByMax

\* The second of two allowed answers has just completed the session.
C8_Witness ==
  /\ config.min_questions <= config.max_questions /\ config.max_questions = 2
  /\ last.op = "submit" /\ last.err = "ok" /\ last.is_complete
  /\ last.arg \in 1..Len(sessions)
  /\ sessions[last.arg].questions_answered = 2
  /\ sessions[last.arg].status = "COMPLETED"

\* C9: a SubmitAnswer for an IN_PROGRESS session past its expires_at fails
\* with invalid-session-state and leaves the stored assignment, sessions and
\* responses exactly as they were.
C9_ExpiredSubmitRejected ==
  [][\A sid \in 1..Len(sessions) :
       (/\ sessions[sid].status = "IN_PROGRESS"
        /\ clock > sessions[sid].expires_at
        /\ Finished("submit", sid)) =>
         /\ last'.err = "invalid-session-state"
         /\ UNCHANGED << assignment, sessions, responses >>]_vars

\* A SubmitAnswer has just been refused for a session still IN_PROGRESS in
\* the store and past its expires_at.
C9_Witness ==
  /\ last.op = "submit" /\ last.err = "invalid-session-state"
  /\ last.arg \in 1..Len(sessions)
  /\ sessions[last.arg].status = "IN_PROGRESS"
  /\ clock > sessions[last.arg].expires_at

\* C10 (as stated): a StartSession on an assignment whose active session has
\* a pending response and is past its expires_at fails with
\* invalid-session-state.
C10_ExpiredStartRejected ==
  [][(LET a == FindActiveSession(sessions) IN
        /\ a # 0
        /\ clock > sessions[a].expires_at
        /\ PendingOf(responses, a) # {}
        /\ Finished("start", 1)) =>
       last'.err = "invalid-session-state"]_vars

\* C11: every StartSession / SubmitAnswer invocation ends its unit of work
\* with commit when the body raised nothing and with rollback when it raised:
\* an invocation whose body raised calls rollback only and never commit; one
\* whose body did not raise calls commit, and when that commit fails it calls
\* rollback after it and raises; the invocation returns normally exactly when
\* the commit succeeded.
C11_CommitXorRollback ==
  (last.op \in {"start", "submit"}) =>
    /\ uow.exc => (uow.calls = << "rollback" >> /\ ~uow.committed /\ last.err # "ok")
    /\ ~uow.exc =>
         \/ uow.calls = << "commit" >> /\ uow.committed /\ last.err = "ok"
         \/ uow.calls = << "commit", "rollback" >> /\ ~uow.committed
              /\ last.err # "ok"

\* A SubmitAnswer whose body ran clean and whose commit failed.
C11_Witness ==
  /\ last.op = "submit" /\ ~uow.exc
  /\ uow.calls = << "commit", "rollback" >> /\ last.err = "database-error"

\* The selector's answer for a first question under the stored config.
FirstQuestion ==
  SelectNextQuestion(config.starting_ability, config.skill_areas, {},
                     GetItemsBySkillAreas(config.skill_areas, {}))

\* C12: a StartSession that reaches the item selector (assignment found and
\* startable, template and config found) and gets nothing from it fails with
\* item-not-found and persists nothing: the stored assignment stays PENDING
\* with no session and no response.
C12_NoEligibleItems ==
  [][(/\ Finished("start", 1)
      /\ catalog = "ok"
      /\ CanStart(GetById(1, assignment, sessions, responses), clock)
      /\ FirstQuestion = 0) =>
       /\ last'.err = "item-not-found"
       /\ UNCHANGED << assignment, sessions, responses >>
       /\ assignment'.status = "PENDING"
       /\ sessions' = << >> /\ responses' = << >>]_vars

\* StartSession has just failed for want of an eligible item, on a startable
\* assignment.
C12_Witness ==
  /\ last.op = "start" /\ last.err = "item-not-found"
  /\ assignment.status = "PENDING" /\ sessions = << >> /\ responses = << >>
  /\ FirstQuestion = 0

\* C13: every response with a non-null submitted_at has is_correct true and
\* raw_score 1.0, or is_correct false and raw_score 0.0 (raw_score is a
\* DECIMAL(5,2), held in hundredths); no other raw_score and no null
\* is_correct occurs on a submitted response.
C13_ScoreMatchesCorrectness ==
  \A i \in 1..Len(responses) :
    responses[i].submitted_at # None =>
      \/ responses[i].is_correct = "true"  /\ responses[i].raw_score = 100
      \/ responses[i].is_correct = "false" /\ responses[i].raw_score = 0

\* One session holds a response answered correctly and one answered wrongly.
C13_Witness ==
  \E i, j \in 1..Len(responses) :
    /\ responses[i].submitted_at # None /\ responses[i].is_correct = "true"
    /\ responses[j].submitted_at # None /\ responses[j].is_correct = "false"

\* The body the controller returns for the last request, when it succeeded:
\* start_test's PlacementTestStartResponse or submit_answer's
\* PlacementTestSubmitAnswerResponse (next_question null: no such field value).
HasQuestion == last.err = "ok" /\ last.question # 0

QuestionDto == MapAssessmentItemToPublicDto(GetItem(last.question))

ProgressDto == BuildProgressDto(sessions[last.session_id], config)

\* Every field name of the returned body, nested ones included.
BodyKeys ==
  (IF last.op = "start" THEN {"session_id", "first_question", "progress"}
   ELSE {"next_question", "progress", "assessment_complete"})
  \cup DOMAIN ProgressDto
  \cup (IF HasQuestion THEN DOMAIN QuestionDto \cup DOMAIN QuestionDto.content
        ELSE {})

\* C14: nothing StartSession or SubmitAnswer returns (first_question,
\* next_question, progress) has a correct_answer field, and the returned
\* content holds exactly the stem, the options and the instruction, on every
\* path: fresh start, resume, next question, completion.
C14_LeakFree ==
  (last.op \in {"start", "submit"} /\ last.err = "ok") =>
    /\ "correct_answer" \notin BodyKeys
    /\ HasQuestion =>
         DOMAIN QuestionDto.content = {"item", "options", "instruction"}

\* A SubmitAnswer has returned a next question whose stored content holds
\* the correct answer.
C14_Witness ==
  /\ last.op = "submit" /\ HasQuestion
  /\ "correct_answer" \in DOMAIN Content(GetItem(last.question))

\* The candidates of the selector call that pass its filter, by position in
\* the pool, and the information of the candidate at a position.
Survivors ==
  {i \in 1..Len(sel.available_items) :
     /\ sel.available_items[i].skill_area \cap sel.skill_areas # {}
     /\ sel.available_items[i].id \notin sel.used_item_ids
     /\ sel.available_items[i].is_active}

Info(i) == CalculateInformation(sel.ability, sel.available_items[i])

\* C15: the item select_next_question returns passed the filter and has, at
\* the given ability, information greater than or equal to that of every
\* other item that passed the filter.
C15_InformationMaximum ==
  (sel.called /\ sel.result # 0) =>
    \E k \in Survivors :
      /\ sel.available_items[k].id = sel.result
      /\ \A j \in Survivors : Info(k) >= Info(j)

\* The returned item is more informative than a survivor that precedes it
\* in the pool.
C15_Witness ==
  /\ sel.called /\ sel.result # 0
  /\ \E k, j \in Survivors :
       /\ sel.available_items[k].id = sel.result
       /\ j < k /\ Info(j) < Info(k)

\* C16 (as stated): with an empty skill-area set the skill-area clause is not
\* applied, so the selector returns an item whenever the pool holds an active
\* candidate whose id is not in the used set.
C16_EmptySkillAreasPassAll ==
  (/\ sel.called
   /\ sel.skill_areas = {}
   /\ \E i \in 1..Len(sel.available_items) :
        /\ sel.available_items[i].is_active
        /\ sel.available_items[i].id \notin sel.used_item_ids) =>
    sel.result # 0

\* C17: the selector returns nothing exactly when no candidate passes the
\* filter; otherwise it returns, of the survivors with maximal information,
\* the one that comes first in the pool.
C17_FirstOfTies ==
  sel.called =>
    /\ (sel.result = 0) <=> (Survivors = {})
    /\ Survivors # {} =>
         LET best == {k \in Survivors : \A j \in Survivors : Info(k) >= Info(j)}
             first == CHOOSE k \in best : \A j \in best : k <= j
         IN  sel.result = sel.available_items[first].id

\* Two survivors tie for the maximum and the earlier one was returned.
C17_Witness ==
  /\ sel.called
  /\ \E i, j \in Survivors :
       /\ i < j /\ Info(i) = Info(j)
       /\ \A k \in Survivors : Info(i) >= Info(k)
       /\ sel.result = sel.available_items[i].id

\* C18 (as stated): COMPLETED, CANCELLED and EXPIRED are absorbing: once the
\* aggregate's session has one of them, no aggregate operation changes the
\* session's status.
C18_TerminalAbsorbing ==
  [][(mem.agg.session # NoSession /\ mem.agg.session.status \in Terminal) =>
       /\ mem'.agg.session # NoSession
       /\ mem'.agg.session.status = mem.agg.session.status]_vars

\* C19 (as stated): the assignment's status changes only from PENDING to
\* IN_PROGRESS by start_session, from IN_PROGRESS to COMPLETED by
\* complete_assessment and from IN_PROGRESS to EXPIRED by expire_session.
C19_AssignmentEdges ==
  [][\/ mem'.agg.status = mem.agg.status
     \/ << mem.agg.status, mem'.op, mem'.agg.status >> \in
          {<< "PENDING", "start_session", "IN_PROGRESS" >>,
           << "IN_PROGRESS", "complete_assessment", "COMPLETED" >>,
           << "IN_PROGRESS", "expire_session", "EXPIRED" >>}]_vars

\* C20: start_session raises and leaves the aggregate as it was when the
\* assignment is not PENDING, when due_at is set and now > due_at, or when an
\* IN_PROGRESS session exists; otherwise it installs a session that is
\* IN_PROGRESS with ability = starting_ability, null standard error,
\* questions_answered 0 and no responses, and sets the assignment IN_PROGRESS.
C20_StartSession ==
  [][(mem' # mem /\ mem'.op = "start_session") =>
       IF \/ mem.agg.status # "PENDING"
          \/ mem.agg.due_at # None /\ clock > mem.agg.due_at
          \/ mem.agg.session # NoSession /\ mem.agg.session.status = "IN_PROGRESS"
       THEN ~mem'.ok /\ mem'.agg = mem.agg
       ELSE /\ mem'.ok
            /\ mem'.agg.status = "IN_PROGRESS"
            /\ mem'.agg.due_at = mem.agg.due_at
            /\ mem'.agg.session # NoSession
            /\ mem'.agg.session.status = "IN_PROGRESS"
            /\ mem'.agg.session.current_ability = mem'.arg
            /\ mem'.agg.session.standard_error = None
            /\ mem'.agg.session.questions_answered = 0
            /\ mem'.agg.session.responses = << >>]_vars

\* start_session has just been refused on a PENDING assignment past its
\* due_at.
C20_Witness ==
  /\ mem.op = "start_session" /\ ~mem.ok
  /\ mem.agg.status = "PENDING" /\ mem.agg.session = NoSession
  /\ mem.agg.due_at # None /\ clock > mem.agg.due_at

\* C21: an answer submitted to a held session is refused with
\* invalid-session-state when the session is not IN_PROGRESS or the clock is
\* past expires_at, else with session-not-found when no response is pending,
\* else with invalid-response when no option is selected; the aggregate's
\* submit_response raises in the same cases; and every refusal leaves the
\* aggregate (responses, counters, statuses) as it was.
C21_SubmitChecks ==
  [][(mem.agg.session # NoSession /\ mem' # mem) =>
       LET s == mem.agg.session
           refusal == IF s.status # "IN_PROGRESS" \/ clock > s.expires_at
                        THEN "invalid-session-state"
                      ELSE IF \A i \in 1..Len(s.responses) :
                                s.responses[i].submitted_at # None
                        THEN "session-not-found"
                      ELSE IF mem'.arg = 0 THEN "invalid-response"
                      ELSE "none"
       IN
       /\ (mem'.op = "SubmitAnswer" /\ refusal # "none") =>
            (mem'.err = refusal /\ mem'.agg = mem.agg)
       /\ (mem'.op = "submit_response" /\ refusal # "none") =>
            (~mem'.ok /\ mem'.agg = mem.agg)
       /\ (mem'.op \in {"SubmitAnswer", "submit_response"} /\ ~mem'.ok) =>
            mem'.agg = mem.agg]_vars

\* An answer with no selected option has just been refused with
\* invalid-session-state: the held session is terminal and still holds a
\* pending response.
C21_Witness ==
  /\ mem.op = "SubmitAnswer" /\ mem.arg = 0
  /\ mem.err = "invalid-session-state"
  /\ mem.agg.session # NoSession
  /\ mem.agg.session.status \in Terminal
  /\ \E i \in 1..Len(mem.agg.session.responses) :
       mem.agg.session.responses[i].submitted_at = None

\* C22 (as stated): a SubmitAnswer naming a stored session whose status is
\* COMPLETED, CANCELLED or EXPIRED fails with invalid-session-state.
C22_TerminalSubmitInvalidState ==
  [][\A sid \in 1..Len(sessions) :
       (sessions[sid].status \in Terminal /\ Finished("submit", sid)) =>
         last'.err = "invalid-session-state"]_vars

\* The active catalog items in the configured skill areas that session sid
\* has not been shown.
EligibleUnseen(sid) ==
  {i \in 1..Len(ItemCatalog) :
     /\ ItemCatalog[i].is_active
     /\ ItemCatalog[i].skill_area \cap config.skill_areas # {}
     /\ \A r \in 1..Len(responses) :
          responses[r].session_id = sid => responses[r].item_id # ItemCatalog[i].id}

\* C23: a successful SubmitAnswer that does not meet the termination policy
\* completes the session and the assignment and returns is_complete with no
\* next question when no eligible unseen item remains; otherwise it appends
\* exactly one pending response, for an eligible unseen item, returns that
\* item and is_complete = false.
C23_NextOrComplete ==
  [][\A sid \in 1..Len(sessions) :
       (/\ Finished("submit", sid) /\ last'.err = "ok"
        /\ ~(/\ sessions'[sid].questions_answered >= config.min_questions
             /\ \/ sessions'[sid].questions_answered >= config.max_questions
                \/ /\ sessions'[sid].standard_error # None
                   /\ sessions'[sid].standard_error <= config.stopping_se)) =>
         IF EligibleUnseen(sid) = {}
         THEN /\ sessions'[sid].status = "COMPLETED"
              /\ assignment'.status = "COMPLETED"
              /\ last'.is_complete /\ last'.question = 0
              /\ Len(responses') = Len(responses)
         ELSE /\ Len(responses') = Len(responses) + 1
              /\ responses'[Len(responses')].session_id = sid
              /\ responses'[Len(responses')].submitted_at = None
              /\ responses'[Len(responses')].item_id \in
                   {ItemCatalog[i].id : i \in EligibleUnseen(sid)}
              /\ last'.question = responses'[Len(responses')].item_id
              /\ PendingOf(responses', sid) = {Len(responses')}
              /\ ~last'.is_complete
              /\ sessions'[sid].status = "IN_PROGRESS"]_vars

\* A SubmitAnswer below min_questions has just completed the session because
\* the only eligible item was the one answered.
C23_Witness ==
  /\ last.op = "submit" /\ last.err = "ok" /\ last.is_complete
  /\ last.arg \in 1..Len(sessions)
  /\ sessions[last.arg].status = "COMPLETED"
  /\ sessions[last.arg].questions_answered < config.min_questions
  /\ EligibleUnseen(last.arg) = {}

\* The same letter, whatever the case.
SameLetter(c, d) == c = d \/ {c, d} \in {{"b", "B"}, {"c", "C"}}

\* s[i+1..j] is s without its leading and trailing whitespace.
IsTrim(s, i, j) ==
  /\ \A k \in 1..i : s[k] \in Whitespace
  /\ \A k \in (j + 1)..Len(s) : s[k] \in Whitespace
  /\ i < j => (s[i + 1] \notin Whitespace /\ s[j] \notin Whitespace)

EqualTrimmedIgnoringCase(s, t) ==
  \E i \in 0..Len(s), k \in 0..Len(t) :
    \E j \in i..Len(s), l \in k..Len(t) :
      /\ IsTrim(s, i, j) /\ IsTrim(t, k, l)
      /\ j - i = l - k
      /\ \A n \in 1..(j - i) : SameLetter(s[i + n], t[k + n])

\* C24: score_response, given a correct_answer and a selected_option, returns
\* score 1.0 and is_correct true exactly when the two are equal after their
\* leading and trailing whitespace is removed and case is ignored, and
\* score 0.0 and is_correct false otherwise (scores in hundredths).
C24_Scoring ==
  (/\ fn.name = "score_response"
   /\ fn.correct_answer # NoAnswer /\ fn.student_answer # NoAnswer) =>
    /\ fn.out.ok
    /\ IF EqualTrimmedIgnoringCase(fn.correct_answer, fn.student_answer)
       THEN fn.out.score = 100 /\ fn.out.is_correct
       ELSE fn.out.score = 0 /\ ~fn.out.is_correct

\* " B" was scored against "b " and found correct.
C24_Witness ==
  /\ fn.name = "score_response"
  /\ fn.correct_answer = << " ", "B" >> /\ fn.student_answer = << "b", " " >>
  /\ fn.out.ok /\ fn.out.is_correct /\ fn.out.score = 100

\* C25 (as stated): a SubmitAnswer for a pending item whose content has no
\* correct_answer fails with invalid-response and leaves the stored session
\* and responses as they were.
C25_UnscorableItemInvalidResponse ==
  [][\A sid \in 1..Len(sessions) :
       (/\ Finished("submit", sid)
        /\ last'.err \notin {"invalid-session-state", "session-not-found",
                             "assessment-configuration-not-found"}
        /\ \E r \in PendingOf(responses, sid) :
             GetItem(responses[r].item_id).correct_answer = NoAnswer) =>
         /\ last'.err = "invalid-response"
         /\ UNCHANGED << assignment, sessions, responses >>]_vars

\* The call is one of the two ability-estimation entry points.
IsEstimation == fn.name \in {"calculate_ability", "estimate_ability_with_item"}

\* C26 (as stated): an ability estimation handed a responses list and an
\* items list of different lengths fails, on both entry points; and when it
\* returns, every previous response's score was paired with the parameters of
\* the item that response answered.
C26_MismatchRejected ==
  IsEstimation =>
    /\ Len(fn.responses) # Len(fn.items) => ~fn.out.ok
    /\ fn.out.ok =>
         \A i \in 1..Len(fn.out.pairs) :
           fn.out.pairs[i].response_id # None =>
             fn.out.pairs[i].item.id =
               fn.responses[fn.out.pairs[i].response_id].item_id

\* C27 (as stated): a kernel call handed an item whose discrimination or
\* difficulty is NaN or infinite fails instead of returning a value, in the
\* Fisher information and in both ability estimations.
C27_NonFiniteRejected ==
  (/\ fn.name \in {"calculate_information", "calculate_ability",
                    "estimate_ability_with_item"}
   /\ \E i \in 1..Len(fn.given) :
        ~IsFinite(fn.given[i].discrimination) \/ ~IsFinite(fn.given[i].difficulty)) =>
    ~fn.out.ok

C30_OnePairPerResponse ==
  [][\A sid \in 1..Len(sessions) :
       (Finished("submit", sid) /\ last'.err = "ok") =>
         LET pairs == last'.pairs
             current == CHOOSE r \in PendingOf(responses, sid) : TRUE
         IN
         /\ Len(pairs) = Cardinality(SubmittedOf(responses, sid)) + 1
         /\ Len(pairs) = sessions'[sid].questions_answered
         /\ \A r \in SubmittedOf(responses, sid) :
              Cardinality({i \in 1..Len(pairs) :
                             /\ pairs[i].response_id = responses[r].id
                             /\ pairs[i].item_id = responses[r].item_id
                             /\ pairs[i].score = responses[r].raw_score}) = 1
         /\ Cardinality({i \in 1..Len(pairs) :
                           /\ pairs[i].response_id = None
                           /\ pairs[i].item_id = responses[current].item_id
                           /\ pairs[i].score = responses'[current].raw_score}) = 1
         /\ Cardinality({pairs[i].response_id : i \in 1..Len(pairs)}) = Len(pairs)]_vars

\* The second answer of a session has just been accepted and was estimated
\* from two pairs.
C30_Witness ==
  /\ last.op = "submit" /\ last.err = "ok" /\ Len(last.pairs) = 2
  /\ last.arg \in 1..Len(sessions)
  /\ sessions[last.arg].questions_answered = 2

\* The rows of session sid's responses in resp, and the most recently
\* created of them (0 when there is none).
RowsOf(resp, sid) == {i \in 1..Len(resp) : resp[i].session_id = sid}

LastCreated(resp, sid) ==
  IF RowsOf(resp, sid) = {} THEN 0
  ELSE CHOOSE i \in RowsOf(resp, sid) : \A j \in RowsOf(resp, sid) : j <= i

\* In whatever order session sid's rows are loaded, get_pending_response
\* finds nothing when no row is pending and the most recently created row
\* otherwise.
PendingIsLastCreated(resp, sid) ==
  LET rows == ResponsesOf(resp, sid) IN
  \A order \in Permutations(1..Len(rows)) :
    LET loaded  == [i \in 1..Len(rows) |-> rows[order[i]]]
        pending == GetPendingResponse([responses |-> loaded])
    IN  IF PendingOf(resp, sid) = {} THEN pending = 0
        ELSE pending # 0 /\ loaded[pending].id = resp[LastCreated(resp, sid)].id

\* C29: a session's pending response, if it has one, is the most recently
\* created of its responses, in whatever order the rows are loaded; a
\* StartSession that resumes returns that response's item, and a successful
\* SubmitAnswer finalizes that response and no other.
C29_PendingIsNewest ==
  [][/\ \A sid \in 1..Len(sessions) : PendingIsLastCreated(responses, sid)
     /\ \A sid \in 1..Len(sessions') : PendingIsLastCreated(responses', sid)
     /\ (LET a == FindActiveSession(sessions) IN
          /\ a # 0 /\ PendingOf(responses, a) # {}
          /\ Finished("start", 1) /\ last'.err = "ok") =>
          /\ last'.session_id = FindActiveSession(sessions)
          /\ last'.question =
               responses[LastCreated(responses, FindActiveSession(sessions))].item_id
          /\ UNCHANGED responses
     /\ \A sid \in 1..Len(sessions) :
          (Finished("submit", sid) /\ last'.err = "ok") =>
            \A r \in RowsOf(responses, sid) :
              IF r = LastCreated(responses, sid)
              THEN responses[r].submitted_at = None /\ responses'[r].submitted_at # None
              ELSE responses'[r] = responses[r]]_vars

\* A SubmitAnswer has just finalized the second response of a session, the
\* one presented after its first answer.
C29_Witness ==
  /\ last.op = "submit" /\ last.err = "ok"
  /\ last.arg \in 1..Len(sessions)
  /\ Cardinality(SubmittedOf(responses, last.arg)) = 2
  /\ PendingOf(responses, last.arg) = {}

\* C31: a StartSession on an assignment whose active session has a pending
\* response takes the resume path: it returns that session, and the stored
\* assignment, session rows and response rows are exactly what they were (no
\* session created, no response created, no column changed).
C31_ResumeChangesNothing ==
  [][(LET a == FindActiveSession(sessions) IN
        /\ a # 0
        /\ PendingOf(responses, a) # {}
        /\ Finished("start", 1)) =>
       /\ last'.err = "ok"
       /\ last'.session_id = FindActiveSession(sessions)
       /\ assignment' = assignment
       /\ sessions' = sessions
       /\ responses' = responses]_vars

\* StartSession has just resumed a session that has one answer submitted and
\* its second question pending.
C31_Witness ==
  /\ last.op = "start" /\ last.err = "ok" /\ last.arg = 1
  /\ last.session_id \in 1..Len(sessions)
  /\ sessions[last.session_id].status = "IN_PROGRESS"
  /\ sessions[last.session_id].questions_answered = 1
  /\ Cardinality(PendingOf(responses, last.session_id)) = 1
  /\ Len(responses) = 2

\* What start_session fixes in a session.
Frozen(s) == << s.rubric_snapshot, s.template_snapshot, s.started_at, s.expires_at >>

\* The aggregates one aggregate operation can leave from agg (agg itself when
\* the operation raises), the clock reading now.
AfterOperation(agg, now) ==
  {StartSessionOp(agg, 2, now, now + 1, 0, t.rubric,
                  [template_id |-> t.id, name |-> t.name]).agg : t \in Templates}
  \cup {PresentQuestion(agg, Len(agg.session.responses) + 1, i, now).agg : i \in 1..2}
  \cup {SubmitResponse(agg, << "c" >>, c, IF c THEN 100 ELSE 0, now).agg : c \in BOOLEAN}
  \cup {UpdateAbilityEstimate(agg, e.ability, e.standard_error).agg : e \in Estimates}
  \cup {CompleteAssessment(agg, now).agg, CancelSessionOp(agg).agg,
        ExpireSessionOp(agg).agg}

\* C32: what start_session fixed in a session (rubric_snapshot,
\* template_snapshot, started_at, expires_at) stays as it is: no request and
\* no save changes these columns of a stored session row, and no aggregate
\* operation changes them in the aggregate a request loads, whatever the
\* template row reads by then.
C32_SnapshotsFrozen ==
  /\ [][\A sid \in 1..Len(sessions) :
          /\ sid <= Len(sessions')
          /\ Frozen(sessions'[sid]) = Frozen(sessions[sid])]_vars
  /\ [](LET agg == GetById(1, assignment, sessions, responses) IN
        agg.session # NoSession =>
          \A a1 \in AfterOperation(agg, clock) :
            Frozen(a1.session) = Frozen(agg.session))

\* A session started from the edited template has been answered twice and
\* completed after the clock moved on: its row was saved again and again.
C32_Witness ==
  /\ last.op = "submit" /\ last.err = "ok"
  /\ Len(sessions) = 1
  /\ sessions[1].status = "COMPLETED"
  /\ sessions[1].questions_answered = 2
  /\ sessions[1].rubric_snapshot = 2
  /\ sessions[1].template_snapshot = [template_id |-> 1, name |-> "placement (revised)"]
  /\ sessions[1].completed_at > sessions[1].started_at

\* C33: the time guards admit the boundary.  An answer with a selected
\* option, submitted (through SubmitAnswer or submit_response) to an
\* IN_PROGRESS session that holds a pending response, is accepted when now <=
\* expires_at, now = expires_at included, and refused when now > expires_at,
\* by SubmitAnswer with invalid-session-state; start_session on a PENDING
\* assignment without session succeeds when due_at is null or now <= due_at,
\* now = due_at included, and raises when now > due_at.
C33_InclusiveGuards ==
  [][(mem' # mem) =>
       LET s == mem.agg.session IN
       /\ (/\ mem'.op \in {"SubmitAnswer", "submit_response"}
           /\ mem'.arg = 1
           /\ s # NoSession
           /\ s.status = "IN_PROGRESS"
           /\ \E i \in 1..Len(s.responses) : s.responses[i].submitted_at = None) =>
            /\ mem'.ok <=> (clock <= s.expires_at)
            /\ (mem'.op = "SubmitAnswer" /\ clock > s.expires_at) =>
                 mem'.err = "invalid-session-state"
       /\ (/\ mem'.op = "start_session"
           /\ mem.agg.status = "PENDING"
           /\ s = NoSession) =>
            (mem'.ok <=> (mem.agg.due_at = None \/ clock <= mem.agg.due_at))]_vars

\* A session started exactly at the assignment's due_at has had an answer
\* accepted by SubmitAnswer exactly at its expires_at.
C33_Witness ==
  /\ mem.op = "SubmitAnswer" /\ mem.ok
  /\ mem.agg.due_at # None
  /\ mem.agg.session # NoSession
  /\ mem.agg.session.started_at = mem.agg.due_at
  /\ clock = mem.agg.session.expires_at
  /\ \E i \in 1..Len(mem.agg.session.responses) :
       mem.agg.session.responses[i].submitted_at = mem.agg.session.expires_at

\* C34: in every committed state a session with status IN_PROGRESS has
\* exactly one pending response; so while it is unexpired, StartSession
\* resumes it with that response's item, and SubmitAnswer is not refused for
\* want of a pending response or for the session's state.
C34_InProgressHasPending ==
  /\ \A sid \in 1..Len(sessions) :
       sessions[sid].status = "IN_PROGRESS" =>
         Cardinality(PendingOf(responses, sid)) = 1
  /\ LET agg == GetById(1, assignment, sessions, responses) IN
     (HasActiveSession(agg) /\ clock <= agg.session.expires_at) =>
       /\ GetPendingResponse(agg.session) # 0
       /\ \A template \in Templates :
            LET out == StartPlacementTestExecute(agg, catalog, template, config, clock,
                         Len(sessions) + 1, Len(responses) + 1)
            IN  /\ out.err = "ok"
                /\ out.session_id = agg.session.id
                /\ out.question
                     = agg.session.responses[GetPendingResponse(agg.session)].item_id
       /\ \A estimate \in Estimates :
            SubmitAnswerExecute(agg, catalog, config, << "c" >>, estimate, clock, clock,
                                Len(responses) + 1).err
              \notin {"session-not-found", "invalid-session-state", "invalid-response"}

\* A SubmitAnswer has just committed and left the session IN_PROGRESS and
\* unexpired, with the question it returned as the one pending response.
C34_Witness ==
  /\ last.op = "submit" /\ last.err = "ok" /\ ~last.is_complete
  /\ last.arg \in 1..Len(sessions)
  /\ sessions[last.arg].status = "IN_PROGRESS"
  /\ clock <= sessions[last.arg].expires_at
  /\ \E i \in PendingOf(responses, last.arg) :
       /\ PendingOf(responses, last.arg) = {i}
       /\ responses[i].item_id = last.question

\* C35: after any sequence of StartSession and SubmitAnswer requests, the
\* responses of one session, submitted and pending, carry pairwise distinct
\* item ids: no item is presented twice within a session.
C35_NoItemTwice ==
  \A sid \in 1..Len(sessions) :
    \A i, j \in RowsOf(responses, sid) :
      i # j => responses[i].item_id # responses[j].item_id

\* A session has been presented a second question after its first was
\* answered, and a second answer has been accepted: two submitted responses
\* for two different items.
C35_Witness ==
  \E sid \in 1..Len(sessions) :
    /\ Cardinality(SubmittedOf(responses, sid)) = 2
    /\ Cardinality({responses[i].item_id : i \in RowsOf(responses, sid)}) = 2

\* C36: a StartSession or SubmitAnswer invocation that raises, whatever the
\* error and wherever it occurs (a check that fails before anything is
\* touched, a raise after the aggregate was mutated in memory, a commit that
\* fails after save, a rollback that fails too), leaves the stored
\* assignment, session rows and response rows exactly as they were.
C36_ErrorLeavesStore ==
  [][(/\ last'.flip # last.flip
      /\ last'.op \in {"start", "submit"}
      /\ last'.err # "ok") =>
       /\ assignment' = assignment
       /\ sessions' = sessions
       /\ responses' = responses]_vars

\* A SubmitAnswer scored the answer, decided to terminate, completed the
\* session in memory and saved; its commit failed, and the stored session is
\* still IN_PROGRESS with nothing answered and its question pending.
C36_Witness ==
  /\ last.op = "submit" /\ last.err = "database-error"
  /\ last.decision = "terminate" /\ Len(last.pairs) = 1
  /\ ~uow.exc /\ ~uow.committed
  /\ last.arg \in 1..Len(sessions)
  /\ sessions[last.arg].status = "IN_PROGRESS"
  /\ sessions[last.arg].questions_answered = 0
  /\ Cardinality(PendingOf(responses, last.arg)) = 1
  /\ assignment.status = "IN_PROGRESS"

\* C37: no StartSession and no SubmitAnswer puts EXPIRED or CANCELLED into a
\* session row or into the assignment row; and a stored IN_PROGRESS session
\* whose expires_at the clock has passed is still IN_PROGRESS, and the
\* assignment still IN_PROGRESS, after every StartSession or SubmitAnswer
\* made from then on (the clock only moves forward).
C37_NeverExpiredByRequest ==
  [][(last'.flip # last.flip /\ last'.op \in {"start", "submit"}) =>
       /\ assignment'.status \in {"EXPIRED", "CANCELLED"} =>
            assignment'.status = assignment.status
       /\ \A sid \in 1..Len(sessions') :
            sessions'[sid].status \in {"EXPIRED", "CANCELLED"} =>
              (sid <= Len(sessions) /\ sessions[sid].status = sessions'[sid].status)
       /\ \A sid \in 1..Len(sessions) :
            (sessions[sid].status = "IN_PROGRESS" /\ clock > sessions[sid].expires_at) =>
              /\ sessions'[sid].status = "IN_PROGRESS"
              /\ assignment'.status = "IN_PROGRESS"]_vars

\* A session that had one answer accepted has since run past its expires_at
\* and has refused a SubmitAnswer; it is stored IN_PROGRESS and so is its
\* assignment.
C37_Witness ==
  /\ last.op = "submit" /\ last.err = "invalid-session-state"
  /\ last.arg \in 1..Len(sessions)
  /\ sessions[last.arg].status = "IN_PROGRESS"
  /\ sessions[last.arg].questions_answered = 1
  /\ clock > sessions[last.arg].expires_at
  /\ assignment.status = "IN_PROGRESS"

\* C38: in every state of the aggregate reached from a PENDING assignment
\* without session through its operations: the assignment is PENDING exactly
\* when it has no session; a COMPLETED session comes with a COMPLETED
\* assignment and a completed_at; an IN_PROGRESS session comes with a null
\* completed_at and an IN_PROGRESS assignment.
C38_StatusCoupling ==
  LET agg == mem.agg
      s == agg.session
  IN
  /\ (agg.status = "PENDING") <=> (s = NoSession)
  /\ (s # NoSession /\ s.status = "COMPLETED") =>
       (agg.status = "COMPLETED" /\ s.completed_at # None)
  /\ (s # NoSession /\ s.status = "IN_PROGRESS") =>
       (s.completed_at = None /\ agg.status = "IN_PROGRESS")

\* complete_assessment has just completed a session whose window had already
\* closed: session and assignment are COMPLETED and completed_at is set.
C38_Witness ==
  /\ mem.op = "complete_assessment" /\ mem.ok
  /\ mem.agg.status = "COMPLETED"
  /\ mem.agg.session # NoSession
  /\ mem.agg.session.status = "COMPLETED"
  /\ mem.agg.session.completed_at # None
  /\ mem.agg.session.completed_at > mem.agg.session.expires_at

\* C39: over requests run one after another, the assignment never has more
\* than one session row; and once its session is COMPLETED, every StartSession
\* on it fails and leaves the stored assignment, sessions and responses as
\* they were.
C39_OneSessionEver ==
  /\ [](Len(sessions) <= 1)
  /\ [][((\E sid \in 1..Len(sessions) : sessions[sid].status = "COMPLETED")
          /\ Finished("start", 1)) =>
         /\ last'.err # "ok"
         /\ assignment' = assignment
         /\ sessions' = sessions
         /\ responses' = responses]_vars

\* A StartSession has just been refused on an assignment whose one session
\* completed after two answers.
C39_Witness ==
  /\ last.op = "start" /\ last.arg = 1 /\ last.err = "ValueError"
  /\ assignment.status = "COMPLETED"
  /\ Len(sessions) = 1
  /\ sessions[1].status = "COMPLETED"
  /\ sessions[1].questions_answered = 2

====
